--------------------------- MODULE ProfilesProofs ---------------------------
(***************************************************************************)
(* Proofs about Profiles for any users, roles and number of requests: its  *)
(* types, that every role was granted, that no profile is without one, and *)
(* that every change is one that a request alone makes of the row there    *)
(* is, or, if it was overtaken or could not read that, of the row it read  *)
(* or none. The inductive invariant adds that the roles a request is about *)
(* to write were granted and are not empty; the last theorem adds that     *)
(* they are what the request makes of the row it read.                     *)
(***************************************************************************)
EXTENDS Profiles, FiniteSetTheorems, TLAPS

\* Taking one role away from a profile that has not exactly one, but has some,
\* leaves some: why DeleteRole may write what it writes.
LEMMA SomeRoleStays ==
    ASSUME NEW R, R # {}, Cardinality(R) # 1, NEW role
    PROVE  R \ {role} # {}
<1>1. SUFFICES ASSUME R \ {role} = {} PROVE FALSE
  OBVIOUS
<1>2. R = {role}
  BY <1>1
<1>3. Cardinality({role}) = 1
  BY FS_Singleton
<1> QED
  BY <1>2, <1>3

\* What GetProfile returns of a user: some roles, and of one with a profile
\* only granted ones.
LEMMA ProfileRead ==
    ASSUME IInv, NEW u \in Users
    PROVE  /\ ProfileRoles(u) \in RoleSets
           /\ ProfileRoles(u) # {}
           /\ Principal(u) \in Keys
           /\ Principal(u) \in Users => Principal(u) = u /\ rows[u] # Absent
           /\ rows[u] # Absent => ProfileRoles(u) \subseteq granted[u] \cup {"user"}
           /\ rows[u] = Absent => Cardinality(ProfileRoles(u)) = 1
<1>1. rows[u] \in {Absent} \cup RoleSets
  BY DEF IInv, TypeOK, Keys
<1>2. Cardinality({NoRole}) = 1
  BY FS_Singleton
<1> QED
  BY <1>1, <1>2, ProfilesAssumption
     DEF IInv, RolesWereGranted, EveryProfileHasARole, ProfileRoles, Principal, Keys, RoleSets

LEMMA InitInv == Init => IInv
<1> SUFFICES ASSUME Init PROVE IInv
  OBVIOUS
<1>1. TypeOK
  BY ProfilesAssumption DEF Init, TypeOK, Suits, Keys, RoleSets
<1>2. RolesWereGranted /\ EveryProfileHasARole
  BY ProfilesAssumption DEF Init, RolesWereGranted, EveryProfileHasARole, Keys, RoleSets
<1>3. WritesWereGranted
  BY DEF Init, WritesWereGranted
<1> QED
  BY <1>1, <1>2, <1>3 DEF IInv

\* A step of one request that leaves the rows alone.
LEMMA JobStep ==
    ASSUME IInv, NEW r \in Requests, NEW at, NEW j,
           At(r, at, j), rows' = rows,
           stale' \subseteq Requests, blind' \subseteq Requests,
           granted' \in [Users -> SUBSET Roles],
           \A u \in Users : granted[u] \subseteq granted'[u],
           at \in {"idle", "admin", "read", "upsert", "delete"},
           j \in {NoJob} \cup Jobs, Suits(at, j),
           at = "read" /\ j.op = "add" => j.role \in granted'[j.user] \cup {"user"},
           at = "upsert" /\ j.key \in Users =>
               j.roles # {} /\ j.roles \subseteq granted'[j.key] \cup {"user"}
    PROVE  IInv'
<1>1. TypeOK'
  <2>1. /\ pc' \in [Requests -> {"idle", "admin", "read", "upsert", "delete"}]
        /\ job' \in [Requests -> {NoJob} \cup Jobs]
    BY DEF IInv, TypeOK, At
  <2>2. ASSUME NEW q \in Requests PROVE Suits(pc[q], job[q])'
    BY DEF IInv, TypeOK, At, Suits
  <2> QED
    BY <2>1, <2>2 DEF IInv, TypeOK
<1>2. RolesWereGranted' /\ EveryProfileHasARole'
  BY DEF IInv, RolesWereGranted, EveryProfileHasARole
<1>3. WritesWereGranted'
  <2> SUFFICES ASSUME NEW q \in Requests PROVE
        /\ pc'[q] = "read" /\ job'[q].op = "add" => job'[q].role \in granted'[job'[q].user] \cup {"user"}
        /\ pc'[q] = "upsert" /\ job'[q].key \in Users =>
            job'[q].roles # {} /\ job'[q].roles \subseteq granted'[job'[q].key] \cup {"user"}
    BY DEF WritesWereGranted
  <2>1. CASE q = r
    BY <2>1 DEF At, IInv, TypeOK
  <2>2. CASE q # r
    <3>1. pc'[q] = pc[q] /\ job'[q] = job[q]
      BY <2>2 DEF At, IInv, TypeOK
    <3>2. pc[q] # "idle" => job[q] \in Jobs
      BY DEF IInv, TypeOK, Suits
    <3> QED
      BY <3>1, <3>2 DEF IInv, WritesWereGranted, Jobs
  <2> QED
    BY <2>1, <2>2
<1> QED
  BY <1>1, <1>2, <1>3 DEF IInv

\* The end of a request that has written its row, or tried to.
LEMMA WriteStep ==
    ASSUME IInv, NEW r \in Requests, NEW roles \in {Absent} \cup RoleSets,
           job[r] \in Jobs, Done(r), UNCHANGED <<granted, blind>>,
           Store(r, roles) \/ UNCHANGED <<rows, stale>>,
           job[r].key \in Users /\ roles # Absent =>
               roles # {} /\ roles \subseteq granted[job[r].key] \cup {"user"}
    PROVE  IInv'
<1>1. job[r].key \in Keys
  BY DEF Jobs
<1>2. TypeOK'
  <2>1. ASSUME NEW q \in Requests PROVE Suits(pc[q], job[q])'
    BY DEF IInv, TypeOK, Done, At, Suits
  <2> QED
    BY <1>1, <2>1 DEF IInv, TypeOK, Done, At, Store, Writing
<1>3. RolesWereGranted' /\ EveryProfileHasARole'
  <2> SUFFICES ASSUME NEW u \in Users
               PROVE rows'[u] # {} /\ (rows'[u] # Absent => rows'[u] \subseteq granted'[u] \cup {"user"})
    BY DEF RolesWereGranted, EveryProfileHasARole
  <2>1. rows'[u] = rows[u] \/ (u = job[r].key /\ rows'[u] = roles)
    BY <1>1 DEF Store, IInv, TypeOK, Keys
  <2>2. Absent # {}
    BY ProfilesAssumption
  <2> QED
    BY <2>1, <2>2 DEF IInv, RolesWereGranted, EveryProfileHasARole
<1>4. WritesWereGranted'
  BY DEF IInv, TypeOK, WritesWereGranted, Done, At
<1> QED
  BY <1>2, <1>3, <1>4 DEF IInv

LEMMA NextInv == IInv /\ [Next]_vars => IInv'
<1> SUFFICES ASSUME IInv, [Next]_vars PROVE IInv'
  OBVIOUS
<1>1. CASE UNCHANGED vars
  BY <1>1 DEF vars, IInv, TypeOK, Suits, RolesWereGranted, EveryProfileHasARole, WritesWereGranted
<1>2. CASE Restart
  BY <1>2 DEF Restart, IInv, TypeOK, Suits, RolesWereGranted, EveryProfileHasARole, WritesWereGranted
<1>3. ASSUME NEW r \in Requests, NEW c \in Users, NEW u \in Users, NEW role \in Roles,
             CreateProfile(r, u) \/ AddRole(r, c, u, role) \/ DeleteRole(r, c, u, role)
      PROVE  IInv'
  <2>1. ASSUME NEW at \in {"admin", "read"}, NEW op \in {"create", "add", "remove"},
               at = "read" => op # "add",
               NEW d \in Users, NEW role2 \in Roles, Begin(r, at, op, d, u, role2)
        PROVE  IInv'
    <3> DEFINE j == [op |-> op, caller |-> d, user |-> u, role |-> role2,
                     key |-> u, roles |-> {}, was |-> Absent]
    <3>1. j \in Jobs /\ At(r, at, j) /\ rows' = rows /\ granted' = granted
      BY <2>1 DEF Begin, Jobs, Keys, RoleSets
    <3>2. Suits(at, j)
      BY <2>1, <3>1, ProfilesAssumption DEF Suits
    <3>3. stale' \subseteq Requests /\ blind' \subseteq Requests
      BY <2>1 DEF Begin, IInv, TypeOK
    <3>4. granted' \in [Users -> SUBSET Roles] /\ \A v \in Users : granted[v] \subseteq granted'[v]
      BY <3>1 DEF IInv, TypeOK
    <3> QED
      BY <2>1, <3>1, <3>2, <3>3, <3>4, JobStep
  <2> QED
    BY <1>3, <2>1, ProfilesAssumption DEF CreateProfile, AddRole, DeleteRole
<1>4. ASSUME NEW r \in Requests, pc[r] # "idle"
      PROVE  /\ job[r] \in Jobs /\ job[r] # NoJob /\ job[r].user \in Users /\ job[r].role \in Roles
             /\ pc[r] # "upsert" => job[r].key = job[r].user
  BY <1>4, ProfilesAssumption DEF IInv, TypeOK, Suits, Jobs
<1>5. ASSUME NEW r \in Requests, pc[r] # "idle", Done(r), rows' = rows,
             UNCHANGED <<granted, stale>>, blind' \subseteq Requests
      PROVE  IInv'
  <2>1. stale' \subseteq Requests /\ granted' \in [Users -> SUBSET Roles]
    BY <1>5 DEF IInv, TypeOK
  <2>2. Suits("idle", NoJob)
    BY DEF Suits
  <2> QED
    BY <1>5, <2>1, <2>2, JobStep DEF Done
<1>6. ASSUME NEW r \in Requests, pc[r] # "idle", NEW key \in Keys, NEW roles \in RoleSets,
             NEW was \in {Absent} \cup RoleSets, Upsert(r, was, key, roles), rows' = rows,
             UNCHANGED <<granted, stale>>, blind' \subseteq Requests,
             key = job[r].user \/ job[r].op = "add",
             key \in Users => roles # {} /\ roles \subseteq granted[key] \cup {"user"}
      PROVE  IInv'
  <2> DEFINE j == [job[r] EXCEPT !.key = key, !.roles = roles, !.was = was]
  <2>1. /\ j \in Jobs /\ j.key = key /\ j.roles = roles
        /\ j.user = job[r].user /\ j.op = job[r].op
    BY <1>4, <1>6 DEF Jobs
  <2>2. Suits("upsert", j)
    BY <1>6, <2>1, ProfilesAssumption DEF Suits
  <2>3. stale' \subseteq Requests /\ granted' \in [Users -> SUBSET Roles]
    BY <1>6 DEF IInv, TypeOK
  <2>4. At(r, "upsert", j)
    BY <1>6 DEF Upsert
  <2> QED
    BY <1>6, <2>1, <2>2, <2>3, <2>4, JobStep
<1>7. ASSUME NEW r \in Requests, AdminRequired(r) PROVE IInv'
  <2>1. pc[r] # "idle" /\ rows' = rows /\ UNCHANGED <<stale, blind>>
    BY <1>7 DEF AdminRequired
  <2>2. stale' \subseteq Requests /\ blind' \subseteq Requests
    BY <2>1 DEF IInv, TypeOK
  <2> DEFINE j == [job[r] EXCEPT !.caller = job[r].user]
  <2>3. CASE /\ At(r, "read", j)
             /\ granted' = IF job[r].op = "add"
                           THEN [granted EXCEPT ![job[r].user] = @ \cup ({job[r].role} \ {"user"})]
                           ELSE granted
    <3>1. /\ j \in Jobs
          /\ j.op = job[r].op /\ j.role = job[r].role /\ j.user = job[r].user
          /\ j.key = job[r].key /\ pc[r] = "admin"
      BY <1>4, <1>7, <2>1 DEF Jobs, AdminRequired
    <3>2. Suits("read", j)
      BY <1>4, <3>1, ProfilesAssumption DEF Suits
    <3>3. granted' \in [Users -> SUBSET Roles] /\ \A v \in Users : granted[v] \subseteq granted'[v]
      BY <1>4, <2>1, <2>3 DEF IInv, TypeOK
    <3>4. j.op = "add" => j.role \in granted'[j.user] \cup {"user"}
      BY <1>4, <2>1, <2>3, <3>1 DEF IInv, TypeOK
    <3> QED
      BY <2>1, <2>2, <2>3, <3>1, <3>2, <3>3, <3>4, JobStep
  <2>4. CASE Done(r) /\ UNCHANGED granted
    BY <1>5, <2>1, <2>2, <2>4
  <2> QED
    BY <1>7, <2>3, <2>4 DEF AdminRequired
<1>8. ASSUME NEW r \in Requests, ReadForCreate(r) \/ ReadForAdd(r) \/ ReadForDelete(r)
      PROVE  IInv'
  <2> DEFINE u == job[r].user
             role == job[r].role
  <2>1. pc[r] = "read" /\ rows' = rows /\ UNCHANGED <<granted, stale>>
    BY <1>8 DEF ReadForCreate, ReadForAdd, ReadForDelete
  <2>2. blind' \subseteq Requests
    BY <1>8 DEF ReadForCreate, ReadForAdd, ReadForDelete, IInv, TypeOK
  <2>3. u \in Users /\ role \in Roles /\ u \in Keys
    BY <1>4, <2>1 DEF Keys
  <2>4. /\ ProfileRoles(u) \in RoleSets /\ ProfileRoles(u) # {}
        /\ Principal(u) \in Keys
        /\ Principal(u) \in Users => Principal(u) = u /\ rows[u] # Absent
        /\ rows[u] # Absent => ProfileRoles(u) \subseteq granted[u] \cup {"user"}
        /\ rows[u] = Absent => Cardinality(ProfileRoles(u)) = 1
        /\ rows[u] \in {Absent} \cup RoleSets
    BY <2>3, ProfileRead DEF IInv, TypeOK
  <2>5. CASE ReadForCreate(r)
    <3>1. {"user"} \in RoleSets
      BY ProfilesAssumption DEF RoleSets
    <3>2. Principal(u) # Nobody => rows[u] # Absent
      BY DEF Principal
    <3>3. PICK R \in RoleSets, was \in {Absent} \cup RoleSets :
            /\ Upsert(r, was, u, R) \/ Done(r)
            /\ R # {} /\ R \subseteq granted[u] \cup {"user"}
      BY <2>4, <2>5, <3>1, <3>2 DEF ReadForCreate
    <3> QED
      BY <1>5, <1>6, <2>1, <2>2, <2>3, <3>3
  <2>6. CASE ReadForAdd(r)
    <3>1. ProfileRoles(u) \cup {role} \in RoleSets
      BY <2>3, <2>4 DEF RoleSets
    <3>2. role \in granted[u] \cup {"user"}
      BY <2>1, <2>6 DEF ReadForAdd, IInv, WritesWereGranted
    <3>3. CASE Upsert(r, rows[u], Principal(u), ProfileRoles(u) \cup {role})
      <4>1. job[r].op = "add"
        BY <2>6 DEF ReadForAdd
      <4> QED
        BY <1>6, <2>1, <2>2, <2>4, <3>1, <3>2, <3>3, <4>1
    <3>4. CASE Done(r)
      BY <1>5, <2>1, <2>2, <3>4
    <3> QED
      BY <2>6, <3>3, <3>4 DEF ReadForAdd
  <2>7. CASE ReadForDelete(r)
    <3> DEFINE j == [job[r] EXCEPT !.was = rows[u]]
    <3>1. CASE At(r, "delete", j)
      <4>1. stale' \subseteq Requests /\ granted' \in [Users -> SUBSET Roles]
        BY <2>1 DEF IInv, TypeOK
      <4>2. j \in Jobs /\ j.key = job[r].key /\ j.user = u
        BY <1>4, <2>1, <2>4 DEF Jobs
      <4>3. Suits("delete", j)
        BY <1>4, <2>1, <4>2, ProfilesAssumption DEF Suits
      <4> HIDE DEF j
      <4> QED
        BY <2>1, <2>2, <3>1, <4>1, <4>2, <4>3, JobStep
    <3>2. CASE /\ Cardinality(ProfileRoles(u)) # 1
               /\ Upsert(r, rows[u], u, ProfileRoles(u) \ {role})
      <4>1. ProfileRoles(u) \ {role} # {}
        BY <2>4, <3>2, SomeRoleStays
      <4>2. ProfileRoles(u) \ {role} \in RoleSets
        BY <2>4 DEF RoleSets
      <4>3. ProfileRoles(u) \ {role} \subseteq granted[u] \cup {"user"}
        BY <2>4, <3>2
      <4>4. u \in Keys /\ rows[u] \in {Absent} \cup RoleSets
        BY <2>3, <2>4
      <4> DEFINE was == rows[u]
                 R == ProfileRoles(u) \ {role}
      <4>5. pc[r] # "idle" /\ Upsert(r, was, u, R)
        BY <2>1, <3>2
      <4> QED
        BY <1>6, <2>1, <2>2, <4>1, <4>2, <4>3, <4>4, <4>5
    <3>3. CASE Done(r)
      BY <1>5, <2>1, <2>2, <3>3
    <3> QED
      BY <2>7, <3>1, <3>2, <3>3 DEF ReadForDelete
  <2> QED
    BY <1>8, <2>5, <2>6, <2>7
<1>9. ASSUME NEW r \in Requests, UpsertProfile(r) \/ DeleteProfile(r) PROVE IInv'
  <2>1. pc[r] \in {"upsert", "delete"} /\ Done(r) /\ UNCHANGED <<granted, blind>>
    BY <1>9 DEF UpsertProfile, DeleteProfile
  <2>2. job[r] \in Jobs /\ job[r].roles \in RoleSets
    BY <1>4, <2>1 DEF Jobs
  <2>3. CASE UpsertProfile(r)
    <3>1. job[r].key \in Users =>
            job[r].roles # {} /\ job[r].roles \subseteq granted[job[r].key] \cup {"user"}
      BY <2>3 DEF UpsertProfile, IInv, WritesWereGranted
    <3> QED
      BY <2>1, <2>2, <2>3, <3>1, WriteStep DEF UpsertProfile
  <2>4. CASE DeleteProfile(r)
    BY <2>1, <2>2, <2>4, WriteStep DEF DeleteProfile
  <2> QED
    BY <1>9, <2>3, <2>4
<1> QED
  <2>1. ASSUME NEW r \in Requests, NEW u \in Users, CreateProfile(r, u) PROVE IInv'
    BY <1>3, <2>1, ProfilesAssumption
  <2> QED
    BY <1>1, <1>2, <1>3, <1>7, <1>8, <1>9, <2>1 DEF Next

LEMMA Invariance == Spec => []IInv
BY InitInv, NextInv, PTL DEF Spec

\* The rows, the requests and the history keep their types.
THEOREM ProfilesTypeCorrect == Spec => []TypeOK
<1>1. IInv => TypeOK
  BY DEF IInv
<1> QED
  BY <1>1, Invariance, PTL

\* Whatever reads and writes overlap or fail, and however often the process is
\* restarted: beside "user" nobody has a role that no admin has asked for him.
THEOREM RolesAreGranted == Spec => []RolesWereGranted
<1>1. IInv => RolesWereGranted
  BY DEF IInv
<1> QED
  BY <1>1, Invariance, PTL

\* No interleaving of deletions leaves a profile without roles behind.
THEOREM ProfilesHaveRoles == Spec => []EveryProfileHasARole
<1>1. IInv => EveryProfileHasARole
  BY DEF IInv
<1> QED
  BY <1>1, Invariance, PTL

-----------------------------------------------------------------------------
(* Changes are accounted for: by what those about to write have read.        *)

\* What a call makes of the row.
WrittenAt(at, j) == IF at = "upsert" THEN j.roles ELSE Absent

\* What WritesAreAlone says of one request, at a call and with a job, when the
\* table is t and the request is stale or blind, or neither.
Follows(at, j, t, excused) ==
    at \in {"upsert", "delete"} /\ j.key \in Users =>
        /\ Alone(j, j.was, WrittenAt(at, j))
        /\ excused \/ t[j.key] = j.was

LEMMA AllFollow ==
    WritesAreAlone <=> \A r \in Requests : Follows(pc[r], job[r], rows, r \in stale \cup blind)
  BY DEF WritesAreAlone, Writing, Written, Follows, WrittenAt

LEMMA AllFollowNext ==
    (\A r \in Requests : Follows(pc'[r], job'[r], rows', r \in stale' \cup blind')) => WritesAreAlone'
<1> SUFFICES ASSUME \A r \in Requests : Follows(pc'[r], job'[r], rows', r \in stale' \cup blind')
             PROVE  WritesAreAlone'
  OBVIOUS
<1>1. ASSUME NEW r \in Requests PROVE WrittenAt(pc'[r], job'[r]) = Written(r)'
  BY DEF WrittenAt, Written
<1> QED
  BY <1>1 DEF WritesAreAlone, Writing, Follows

\* A step of one request that leaves the rows alone.
LEMMA JobStepFollows ==
    ASSUME TypeOK, WritesAreAlone, NEW r \in Requests, NEW at, NEW j,
           At(r, at, j), rows' = rows, stale \ {r} \subseteq stale', blind \ {r} \subseteq blind',
           Follows(at, j, rows, r \in stale' \cup blind')
    PROVE  WritesAreAlone'
<1>1. ASSUME NEW q \in Requests PROVE Follows(pc'[q], job'[q], rows', q \in stale' \cup blind')
  <2>1. CASE q = r
    BY <2>1 DEF At, TypeOK
  <2>2. CASE q # r
    <3>1. /\ pc'[q] = pc[q] /\ job'[q] = job[q]
          /\ q \in stale \cup blind => q \in stale' \cup blind'
      BY <2>2 DEF At, TypeOK
    <3>2. Follows(pc[q], job[q], rows, q \in stale \cup blind)
      BY AllFollow
    <3> QED
      BY <3>1, <3>2 DEF Follows
  <2> QED
    BY <2>1, <2>2
<1> QED
  BY <1>1, AllFollowNext

\* A request ends having written the row or not: whoever was about to write the
\* same row has been overtaken.
LEMMA WriteStepFollows ==
    ASSUME TypeOK, WritesAreAlone, NEW r \in Requests, job[r] \in Jobs, Done(r),
           NEW roles, Store(r, roles) \/ UNCHANGED <<rows, stale>>, blind' = blind
    PROVE  WritesAreAlone'
<1>1. ASSUME NEW q \in Requests PROVE Follows(pc'[q], job'[q], rows', q \in stale' \cup blind')
  <2>1. CASE q = r
    <3>1. pc'[q] = "idle"
      BY <2>1 DEF Done, At, TypeOK
    <3> QED
      BY <3>1 DEF Follows
  <2>2. CASE q # r
    <3>1. pc'[q] = pc[q] /\ job'[q] = job[q]
      BY <2>2 DEF Done, At, TypeOK
    <3>2. Follows(pc[q], job[q], rows, q \in stale \cup blind)
      BY AllFollow
    <3>3. q \in stale => q \in stale'
      BY <2>2 DEF Store
    <3>4. pc[q] \in {"upsert", "delete"} /\ job[q].key \in Users /\ q \notin stale' =>
            rows'[job[q].key] = rows[job[q].key]
      <4>1. CASE UNCHANGED <<rows, stale>>
        BY <4>1
      <4>2. CASE Store(r, roles)
        BY <2>2, <4>2 DEF Store, Writing, TypeOK, Keys
      <4> QED
        BY <4>1, <4>2
    <3> QED
      BY <3>1, <3>2, <3>3, <3>4 DEF Follows
  <2> QED
    BY <2>1, <2>2
<1> QED
  BY <1>1, AllFollowNext

LEMMA NextFollows == IInv /\ WritesAreAlone /\ [Next]_vars => WritesAreAlone'
<1> SUFFICES ASSUME IInv, WritesAreAlone, [Next]_vars PROVE WritesAreAlone'
  OBVIOUS
<1>1. TypeOK /\ \A r \in Requests : Follows(pc[r], job[r], rows, r \in stale \cup blind)
  BY AllFollow DEF IInv
<1>2. CASE UNCHANGED vars
  BY <1>1, <1>2, AllFollowNext DEF vars
<1>3. CASE Restart
  <2>1. \A r \in Requests : pc'[r] = "idle"
    BY <1>3 DEF Restart
  <2> QED
    BY <2>1, AllFollowNext DEF Follows
<1>4. ASSUME NEW r \in Requests, pc[r] # "idle" PROVE job[r] \in Jobs /\ job[r].user \in Users
  BY <1>1, <1>4 DEF TypeOK, Suits, Jobs
<1>5. ASSUME NEW r \in Requests, NEW at \in {"idle", "admin", "read"}, NEW j, At(r, at, j),
             rows' = rows, stale \ {r} \subseteq stale', blind \ {r} \subseteq blind'
      PROVE  WritesAreAlone'
  <2>1. Follows(at, j, rows, r \in stale' \cup blind')
    BY <1>5 DEF Follows
  <2> QED
    BY <1>1, <1>5, <2>1, JobStepFollows
<1>6. ASSUME NEW r \in Requests, NEW u, NEW c, NEW op, NEW role, NEW at \in {"admin", "read"},
             Begin(r, at, op, c, u, role)
      PROVE  WritesAreAlone'
  <2> DEFINE j == [op |-> op, caller |-> c, user |-> u, role |-> role, key |-> u, roles |-> {}, was |-> Absent]
  <2>1. /\ At(r, at, j) /\ rows' = rows
        /\ stale \ {r} \subseteq stale' /\ blind \ {r} \subseteq blind'
    BY <1>6 DEF Begin
  <2> HIDE DEF j
  <2> QED
    BY <1>5, <2>1
<1>7. ASSUME NEW r \in Requests, AdminRequired(r) PROVE WritesAreAlone'
  <2> DEFINE j == [job[r] EXCEPT !.caller = job[r].user]
  <2>1. /\ pc[r] = "admin" /\ rows' = rows /\ stale' = stale /\ blind' = blind
        /\ At(r, "read", j) \/ Done(r)
    BY <1>7 DEF AdminRequired
  <2> HIDE DEF j
  <2> QED
    BY <1>5, <2>1 DEF Done
\* Where a read leads to: Upsert(r, was, key, roles) with the row that was read.
<1>8. ASSUME NEW r \in Requests, pc[r] = "read", NEW key, NEW roles, NEW was,
             Upsert(r, was, key, roles), rows' = rows, stale' = stale, blind \subseteq blind',
             key \in Users =>
                 Alone(job[r], was, roles) /\ (r \in blind' \/ rows[key] = was)
      PROVE  WritesAreAlone'
  <2> DEFINE j == [job[r] EXCEPT !.key = key, !.roles = roles, !.was = was]
  <2>1. /\ j.key = key /\ j.roles = roles /\ j.was = was
        /\ j.op = job[r].op /\ j.role = job[r].role
    BY <1>4, <1>8 DEF Jobs
  <2>2. At(r, "upsert", j)
    BY <1>8 DEF Upsert
  <2> HIDE DEF j
  <2>3. Follows("upsert", j, rows, r \in stale' \cup blind')
    BY <1>8, <2>1 DEF Follows, WrittenAt, Alone
  <2> QED
    BY <1>1, <1>8, <2>2, <2>3, JobStepFollows
<1>9. ASSUME NEW r \in Requests, ReadForCreate(r) \/ ReadForAdd(r) \/ ReadForDelete(r)
      PROVE  WritesAreAlone'
  <2> DEFINE u == job[r].user
             role == job[r].role
  <2>1. pc[r] = "read" /\ rows' = rows /\ stale' = stale /\ blind \subseteq blind'
    BY <1>9 DEF ReadForCreate, ReadForAdd, ReadForDelete
  <2>2. u \in Users /\ u \in Keys /\ role \in Roles /\ Nobody \notin Users /\ Nobody \in Keys
    BY <1>4, <2>1, ProfilesAssumption DEF Keys, Jobs
  <2>3. /\ ProfileRoles(u) \in RoleSets
        /\ Principal(u) \in Keys
        /\ Principal(u) \in Users => Principal(u) = u /\ rows[u] # Absent
        /\ rows[u] = Absent => Cardinality(ProfileRoles(u)) = 1
    BY <2>2, ProfileRead
  <2>4. rows[u] # Absent => ProfileRoles(u) = rows[u]
    BY DEF ProfileRoles
  <2>5. ASSUME Done(r) PROVE WritesAreAlone'
    BY <1>5, <2>1, <2>5 DEF Done
  <2>6. CASE ReadForCreate(r)
    <3> DEFINE roles == IF Principal(u) = Nobody THEN {"user"} ELSE ProfileRoles(u)
    <3>1. job[r].op = "create"
      BY <2>6 DEF ReadForCreate
    <3>2. CASE Upsert(r, rows[u], u, roles)
      <4>1. Principal(u) = Nobody <=> rows[u] = Absent
        BY <2>2 DEF Principal
      <4>2. Alone(job[r], rows[u], roles)
        BY <2>4, <3>1, <4>1 DEF Alone
      <4> HIDE DEF roles
      <4> QED
        BY <1>8, <2>1, <3>2, <4>2
    <3>3. CASE Upsert(r, Absent, u, {"user"}) /\ blind' = blind \cup {r}
      <4>1. Alone(job[r], Absent, {"user"})
        BY <3>1 DEF Alone
      <4> QED
        BY <1>8, <2>1, <3>3, <4>1
    <3> QED
      BY <2>5, <2>6, <3>2, <3>3 DEF ReadForCreate
  <2>7. CASE ReadForAdd(r)
    <3>1. job[r].op = "add"
      BY <2>7 DEF ReadForAdd
    <3>2. CASE Upsert(r, rows[u], Principal(u), ProfileRoles(u) \cup {role})
      <4>1. Principal(u) \in Users => Alone(job[r], rows[u], ProfileRoles(u) \cup {role})
        BY <2>3, <2>4, <3>1 DEF Alone
      <4> QED
        BY <1>8, <2>1, <2>3, <3>2, <4>1
    <3> QED
      BY <2>5, <2>7, <3>2 DEF ReadForAdd
  <2>8. CASE ReadForDelete(r)
    <3>1. job[r].op = "remove"
      BY <2>8 DEF ReadForDelete
    <3> DEFINE j == [job[r] EXCEPT !.was = rows[u]]
    <3>2. CASE Cardinality(ProfileRoles(u)) = 1 /\ At(r, "delete", j)
      <4>1. /\ j.key = u /\ j.was = rows[u] /\ j.op = "remove"
        BY <1>1, <1>4, <2>1, <3>1 DEF Jobs, TypeOK, Suits
      <4> HIDE DEF j
      <4>2. Alone(j, j.was, Absent)
        BY <2>4, <3>2, <4>1 DEF Alone
      <4>3. Follows("delete", j, rows, r \in stale' \cup blind')
        BY <4>1, <4>2 DEF Follows, WrittenAt
      <4> QED
        BY <1>1, <2>1, <3>2, <4>3, JobStepFollows
    <3>3. CASE Cardinality(ProfileRoles(u)) # 1 /\ Upsert(r, rows[u], u, ProfileRoles(u) \ {role})
      <4>1. Alone(job[r], rows[u], ProfileRoles(u) \ {role})
        BY <2>3, <2>4, <3>1, <3>3 DEF Alone
      <4> QED
        BY <1>8, <2>1, <3>3, <4>1
    <3> QED
      BY <2>5, <2>8, <3>2, <3>3 DEF ReadForDelete
  <2> QED
    BY <1>9, <2>6, <2>7, <2>8
<1>10. ASSUME NEW r \in Requests, UpsertProfile(r) \/ DeleteProfile(r) PROVE WritesAreAlone'
  BY <1>1, <1>4, <1>10, WriteStepFollows DEF UpsertProfile, DeleteProfile
<1>11. ASSUME NEW r \in Requests, NEW u \in Users, CreateProfile(r, u) PROVE WritesAreAlone'
  BY <1>6, <1>11 DEF CreateProfile
<1>12. ASSUME NEW r \in Requests, NEW c \in Users, NEW u \in Users, NEW role \in Roles,
              AddRole(r, c, u, role) \/ DeleteRole(r, c, u, role)
       PROVE  WritesAreAlone'
  BY <1>6, <1>12 DEF AddRole, DeleteRole
<1> QED
  BY <1>2, <1>3, <1>7, <1>9, <1>10, <1>11, <1>12 DEF Next

\* A change of a row is one of the two writes.
LEMMA StepAccounts ==
    ASSUME IInv, WritesAreAlone, [Next]_vars, NEW u \in Users, rows'[u] # rows[u]
    PROVE  \E r \in Writing(u) :
               /\ pc'[r] = "idle"
               /\ Alone(job[r], IF r \in stale \cup blind THEN job[r].was ELSE rows[u], rows'[u])
<1>1. PICK r \in Requests : UpsertProfile(r) \/ DeleteProfile(r)
  <2>1. \A r \in Requests : AdminRequired(r) \/ ReadForCreate(r) \/ ReadForAdd(r) \/ ReadForDelete(r)
            => rows' = rows
    BY Zenon DEF AdminRequired, ReadForCreate, ReadForAdd, ReadForDelete
  <2>2. \A r \in Requests, c, v \in Users, role \in Roles :
            CreateProfile(r, v) \/ AddRole(r, c, v, role) \/ DeleteRole(r, c, v, role) => rows' = rows
    BY ProfilesAssumption DEF CreateProfile, AddRole, DeleteRole, Begin
  <2> QED
    BY <2>1, <2>2, ProfilesAssumption DEF Next, vars, Restart
<1>2. /\ pc[r] \in {"upsert", "delete"} /\ job[r] \in Jobs /\ job[r].key \in Keys
      /\ job[r].key = u /\ rows'[u] = Written(r) /\ pc'[r] = "idle"
  BY <1>1 DEF UpsertProfile, DeleteProfile, Done, At, Store, Written, IInv, TypeOK, Suits, Jobs, Keys
<1>3. r \in Writing(u)
  BY <1>2 DEF Writing
<1>4. Alone(job[r], IF r \in stale \cup blind THEN job[r].was ELSE rows[u], rows'[u])
  BY <1>2, <1>3 DEF WritesAreAlone
<1> QED
  BY <1>2, <1>3, <1>4

\* However many requests overlap or fail: the roles of a profile change as one
\* request alone would have changed them, or, when the row has been written again
\* since that request read it, or it could not read it, as the request would have
\* changed the row it read, or an absent one.
\* (internal/service/auth.go:21-60, 98-156)
THEOREM ProfileChangesAreAccountedFor == Spec => ChangesAreAccountedFor
<1>1. ASSUME Init PROVE WritesAreAlone
  <2>1. \A r \in Requests : pc[r] = "idle"
    BY <1>1 DEF Init
  <2> QED
    BY <2>1 DEF WritesAreAlone, Writing
<1>2. IInv /\ WritesAreAlone /\ [Next]_vars =>
        [\A u \in Users : rows'[u] # rows[u] =>
            \E r \in Writing(u) :
                /\ pc'[r] = "idle"
                /\ Alone(job[r], IF r \in stale \cup blind THEN job[r].was ELSE rows[u],
                         rows'[u])]_vars
  BY StepAccounts
<1> QED
  BY <1>1, <1>2, Invariance, NextFollows, PTL DEF Spec, ChangesAreAccountedFor
=============================================================================
