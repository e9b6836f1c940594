------------------------- MODULE DeploymentsProofs -------------------------
(***************************************************************************)
(* Proofs about Deployments, for any users, slots, bodies and number of    *)
(* concurrent requests: its types, why lists in Redis can be stale, that   *)
(* they list past states of the rows, and that the endpoints implement     *)
(* DeploymentRegistry.                                                     *)
(***************************************************************************)
EXTENDS DeploymentsHistory, TLAPS

(* A listing of a user's rows is a list of the same rows.                   *)
LEMMA DecodedAreLists ==
    ASSUME NEW l \in Lists
    PROVE  Decoded[l] \subseteq Lists
  BY DEF Decoded

(* An answered request's slot is idle again; what it read is forgotten.     *)
LEMMA RespondTypes ==
    ASSUME TypeOK, NEW r \in Requests, NEW answer \in Replies, Respond(r, answer)
    PROVE  /\ pc' = [pc EXCEPT ![r] = "idle"]
           /\ arg' \in [Requests -> ListArgs \cup UpsertArgs \cup DeleteArgs \cup {NoArg}]
           /\ \A q \in Requests : q # r => arg'[q] = arg[q] /\ got'[q] = got[q]
           /\ got' \in [Requests -> Lists \cup {NoList}]
           /\ reply' \in [Requests -> Replies]
  BY DEF TypeOK, Respond

LEMMA CodeIsReply ==
    ASSUME NEW c \in {"none", "200", "204", "500"}
    PROVE  Code(c) \in Replies
  BY DEF Code, Replies

LEMMA ListReplyIsReply ==
    ASSUME NEW l \in Lists
    PROVE  ListReply(l) \in Replies
  BY DEF ListReply, Replies

LEMMA InitTypes == Init => TypeOK
<1> SUFFICES ASSUME Init PROVE TypeOK
  OBVIOUS
<1>1. EmptyList \in Lists
  BY DEF EmptyList, Lists
<1>2. Code("none") \in Replies
  BY CodeIsReply
<1>3. QED
  BY <1>1, <1>2 DEF Init, TypeOK, ListPCs, UpsertPCs, DeletePCs, WritePCs

(* Every new request leaves the types as they are.                          *)
LEMMA NewRequestTypes ==
    ASSUME TypeOK, NEW r \in Requests, NewRequest(r)
    PROVE  TypeOK'
<1>1. CASE \E u \in Users : GetUserDeployments(r, u)
  <2>1. PICK u \in Users : GetUserDeployments(r, u)
    BY <1>1
  <2> DEFINE a == [op |-> "list", user |-> u, slot |-> NoArg, body |-> Absent]
  <2>2. a \in ListArgs
    BY DEF ListArgs
  <2>3. Code("none") \in Replies
    BY CodeIsReply
  <2>4. QED
    BY <2>1, <2>2, <2>3 DEF GetUserDeployments, Begin, TypeOK, ListPCs, UpsertPCs,
       DeletePCs, WritePCs, stores, history
<1>2. CASE \E u \in Users, s \in Slots, b \in Bodies : UpsertDeployment(r, u, s, b)
  <2>1. PICK u \in Users, s \in Slots, b \in Bodies : UpsertDeployment(r, u, s, b)
    BY <1>2
  <2> DEFINE a == [op |-> "upsert", user |-> u, slot |-> s, body |-> b]
  <2>2. a \in UpsertArgs
    BY DEF UpsertArgs
  <2>3. Code("none") \in Replies
    BY CodeIsReply
  <2>4. QED
    BY <2>1, <2>2, <2>3 DEF UpsertDeployment, Begin, TypeOK, ListPCs, UpsertPCs,
       DeletePCs, WritePCs, stores, history
<1>3. CASE \E u \in Users, s \in Slots : DeleteDeployment(r, u, s)
  <2>1. PICK u \in Users, s \in Slots : DeleteDeployment(r, u, s)
    BY <1>3
  <2> DEFINE a == [op |-> "delete", user |-> u, slot |-> s, body |-> Absent]
  <2>2. a \in DeleteArgs
    BY DEF DeleteArgs
  <2>3. Code("none") \in Replies
    BY CodeIsReply
  <2>4. QED
    BY <2>1, <2>2, <2>3 DEF DeleteDeployment, Begin, TypeOK, ListPCs, UpsertPCs,
       DeletePCs, WritePCs, stores, history
<1>4. CASE RefuseEmptyUpsert(r) \/ RefuseDefaultDelete(r)
  <2>1. Code("500") \in Replies /\ Code("204") \in Replies
    BY CodeIsReply
  <2>2. QED
    BY <1>4, <2>1 DEF RefuseEmptyUpsert, RefuseDefaultDelete, Refuse, TypeOK, ListPCs,
       UpsertPCs, DeletePCs, WritePCs, stores, history
<1>5. QED
  BY <1>1, <1>2, <1>3, <1>4 DEF NewRequest

(* Every call of a request leaves the types as they are.                    *)
LEMMA RequestStepTypes ==
    ASSUME TypeOK, NEW r \in Requests, RequestStep(r)
    PROVE  TypeOK'
<1> USE DEF ListPCs, UpsertPCs, DeletePCs, WritePCs
<1>0. Code("200") \in Replies /\ Code("204") \in Replies /\ Code("500") \in Replies
  BY CodeIsReply
<1>1. CASE RedisGetList(r)
  <2>1. arg[r].user \in Users
    BY <1>1 DEF RedisGetList, TypeOK, ListArgs
  <2>2. listCache[arg[r].user] # NoList => ListReply(listCache[arg[r].user]) \in Replies
    BY <2>1, ListReplyIsReply DEF TypeOK
  <2>3. QED
    BY <1>1, <2>1, <2>2, RespondTypes
       DEF RedisGetList, TypeOK, Respond, GoTo, stores, logs, history
<1>2. CASE TableList(r)
  <2>1. arg[r].user \in Users
    BY <1>2 DEF TableList, TypeOK, ListArgs
  <2>2. Decoded[table[arg[r].user]] \subseteq Lists
    BY <2>1, DecodedAreLists DEF TypeOK
  <2>3. CASE Respond(r, Code("500"))
    BY <1>0, <1>2, <2>3 DEF TableList, TypeOK, Respond, stores, logs, history
  <2>4. CASE /\ pc' = [pc EXCEPT ![r] = "redisSetList"]
             /\ \E m \in Decoded[table[arg[r].user]] : got' = [got EXCEPT ![r] = m]
             /\ UNCHANGED <<arg, reply>>
    BY <1>2, <2>2, <2>4 DEF TableList, TypeOK, stores, logs, history
  <2> QED
    BY <1>2, <2>3, <2>4 DEF TableList
<1>3. CASE RedisSetList(r)
  <2>1. arg[r].user \in Users /\ got[r] \in Lists
    BY <1>3 DEF RedisSetList, TypeOK, ListArgs
  <2>2. ListReply(got[r]) \in Replies
    BY <2>1, ListReplyIsReply
  <2>3. QED
    BY <1>3, <2>1, <2>2 DEF RedisSetList, TypeOK, Respond, logs
<1>4. CASE TableUpsert(r)
  <2>1. arg[r].user \in Users /\ arg[r].slot \in Slots /\ arg[r].body \in Bodies
    BY <1>4 DEF TableUpsert, TypeOK, UpsertArgs
  <2>2. [table EXCEPT ![arg[r].user][arg[r].slot] = arg[r].body] \in [Users -> Lists]
    BY <2>1 DEF TypeOK, Lists
  <2>3. table' \in [Users -> Lists] /\ unswept' \subseteq Users
    BY <1>4, <2>1, <2>2 DEF TableUpsert, TypeOK
  <2>4. QED
    BY <1>4, <2>3 DEF TableUpsert, TypeOK, GoTo, logs
<1>5. CASE RedisSetEntry(r)
  <2>1. EntryKey(arg[r].user, arg[r].slot) \in EntryKeys /\ arg[r].body \in Bodies
    BY <1>5 DEF RedisSetEntry, TypeOK, UpsertArgs, EntryKey, EntryKeys, Slots
  <2>2. entryCache' \in [EntryKeys -> Bodies \cup {Absent}]
    BY <1>5, <2>1 DEF RedisSetEntry, TypeOK
  <2>3. QED
    BY <1>5, <2>2 DEF RedisSetEntry, TypeOK, GoTo, logs, history
<1>6. CASE TableDelete(r)
  <2>1. arg[r].user \in Users /\ arg[r].slot \in Slots
    BY <1>6 DEF TableDelete, TypeOK, DeleteArgs
  <2>2. [table EXCEPT ![arg[r].user][arg[r].slot] = Absent] \in [Users -> Lists]
    BY <2>1 DEF TypeOK, Lists
  <2>3. table' \in [Users -> Lists] /\ unswept' \subseteq Users
    BY <1>6, <2>1, <2>2 DEF TableDelete, TypeOK
  <2>4. QED
    BY <1>6, <2>3 DEF TableDelete, TypeOK, GoTo, logs
<1>7. CASE RedisDelEntry(r)
  <2>1. EntryKey(arg[r].user, arg[r].slot) \in EntryKeys
    BY <1>7 DEF RedisDelEntry, TypeOK, UpsertArgs, DeleteArgs, EntryKey, EntryKeys, Slots
  <2>2. entryCache' \in [EntryKeys -> Bodies \cup {Absent}]
    BY <1>7, <2>1 DEF RedisDelEntry, TypeOK
  <2>3. QED
    BY <1>7, <2>2 DEF RedisDelEntry, TypeOK, GoTo, logs, history
<1>8. CASE RedisDelList(r)
  <2>1. arg[r].user \in Users
    BY <1>8 DEF RedisDelList, TypeOK, UpsertArgs, DeleteArgs
  <2>2. QED
    BY <1>8, <2>1 DEF RedisDelList, Filling, TypeOK, GoTo, logs
<1>9. CASE EventDone(r)
  <2>1. arg[r] \in UpsertArgs \cup DeleteArgs
    BY <1>9 DEF EventDone, TypeOK
  <2>2. arg[r].op = "upsert" =>
            [user |-> arg[r].user, slot |-> arg[r].slot, body |-> arg[r].body] \in LogRows
    BY <2>1 DEF UpsertArgs, DeleteArgs, LogRows
  <2>3. entryRun' \in [Requests -> LogRows \cup {NoArg}]
    BY <1>9, <2>2 DEF EventDone, TypeOK
  <2>4. event' \in [Requests -> Reasons \cup {"none"}]
    BY <1>9 DEF EventDone, Record, Reasons, TypeOK
  <2>5. QED
    BY <1>0, <1>9, <2>3, <2>4 DEF EventDone, TypeOK, Respond, stores, history
<1>10. CASE EventFailed(r)
  <2>1. event' \in [Requests -> Reasons \cup {"none"}]
    BY <1>10 DEF EventFailed, Record, Reasons, TypeOK
  <2>2. QED
    BY <1>0, <1>10, <2>1 DEF EventFailed, TypeOK, Respond, stores, history
<1>11. QED
  BY <1>1, <1>2, <1>3, <1>4, <1>5, <1>6, <1>7, <1>8, <1>9, <1>10 DEF RequestStep

LEMMA NextTypes == TypeOK /\ [Next]_vars => TypeOK'
<1> SUFFICES ASSUME TypeOK, [Next]_vars PROVE TypeOK'
  OBVIOUS
<1>1. ASSUME NEW r \in Requests, NewRequest(r) PROVE TypeOK'
  BY <1>1, NewRequestTypes
<1>2. ASSUME NEW r \in Requests, RequestStep(r) PROVE TypeOK'
  BY <1>2, RequestStepTypes
<1>3. ASSUME NEW r \in Requests, DeploymentOperationEntry(r) PROVE TypeOK'
  BY <1>3 DEF DeploymentOperationEntry, TypeOK, stores, history
<1>4. CASE Restart
  <2>1. Code("none") \in Replies
    BY CodeIsReply
  <2>2. QED
    BY <1>4, <2>1 DEF Restart, TypeOK, stores, ListPCs, UpsertPCs, DeletePCs, WritePCs
<1>5. CASE UNCHANGED vars
  BY <1>5 DEF vars, TypeOK
<1>6. QED
  BY <1>1, <1>2, <1>3, <1>4, <1>5 DEF Next

(* Every variable keeps its type and every request carries the argument its *)
(* next call needs.                                                         *)
THEOREM TypeCorrect == Spec => []TypeOK
  BY InitTypes, NextTypes, PTL DEF Spec
-----------------------------------------------------------------------------
(* Stale lists.  Only the table, the lists in Redis, the sweeps that are owed *)
(* and the fills matter; most steps leave all of them alone.                  *)

(* A step that changes no row, no list, no sweep and no fill keeps both      *)
(* invariants.                                                               *)
LEMMA QuietStep ==
    ASSUME StaleListIsExplained, StaleFillIsExplained,
           UNCHANGED <<table, listCache, unswept, overtaken>>,
           \A u \in Users : Sweeping(u) => Sweeping(u)',
           \A q \in Requests : pc'[q] = "redisSetList" =>
               pc[q] = "redisSetList" /\ got'[q] = got[q] /\ arg'[q] = arg[q],
           \A q \in Requests : pc[q] = "redisSetList" => arg[q].user \in Users
    PROVE  StaleListIsExplained' /\ StaleFillIsExplained'
  BY DEF StaleListIsExplained, StaleFillIsExplained

(* A request that is not about to delete a list can go where it likes        *)
(* without stopping a sweep.                                                 *)
LEMMA SweepsGoOn ==
    ASSUME TypeOK, NEW r \in Requests,
           pc[r] \notin {"redisSetEntry", "redisDelEntry", "redisDelList"}
               \/ /\ pc'[r] \in {"redisSetEntry", "redisDelEntry", "redisDelList"}
                  /\ arg'[r] = arg[r],
           \A q \in Requests : q # r => pc'[q] = pc[q] /\ arg'[q] = arg[q],
           NEW u \in Users, Sweeping(u)
    PROVE  Sweeping(u)'
  BY DEF Sweeping

LEMMA FillUser ==
    ASSUME TypeOK, NEW q \in Requests, pc[q] = "redisSetList"
    PROVE  arg[q].user \in Users
  BY DEF TypeOK, ListPCs, ListArgs

LEMMA NewRequestStale ==
    ASSUME IInv, NEW r \in Requests, NewRequest(r)
    PROVE  StaleListIsExplained' /\ StaleFillIsExplained'
<1> USE DEF IInv
<1>1. /\ UNCHANGED <<table, listCache, unswept, overtaken, got>>
      /\ pc[r] = "idle"
      /\ pc'[r] \in {"idle", "redisGet", "tableUpsert", "tableDelete"}
      /\ \A q \in Requests : q # r => pc'[q] = pc[q] /\ arg'[q] = arg[q]
  BY DEF NewRequest, GetUserDeployments, UpsertDeployment, DeleteDeployment,
     RefuseEmptyUpsert, RefuseDefaultDelete, Begin, Refuse, stores, history, TypeOK
<1>2. \A u \in Users : Sweeping(u) => Sweeping(u)'
  BY <1>1, SweepsGoOn
<1>3. \A q \in Requests : pc'[q] = "redisSetList" =>
         pc[q] = "redisSetList" /\ got'[q] = got[q] /\ arg'[q] = arg[q]
  BY <1>1
<1>4. QED
  BY <1>1, <1>2, <1>3, FillUser, QuietStep

(* The calls that neither change the table nor a list in Redis, nor start a  *)
(* fill.                                                                     *)
LEMMA OtherCallStale ==
    ASSUME IInv, NEW r \in Requests,
           \/ RedisGetList(r) \/ RedisSetEntry(r) \/ RedisDelEntry(r)
           \/ EventDone(r) \/ EventFailed(r)
    PROVE  StaleListIsExplained' /\ StaleFillIsExplained'
<1> USE DEF IInv
<1>1. /\ UNCHANGED <<table, listCache, unswept, overtaken>>
      /\ \/ pc[r] \in {"redisGet", "eventDone", "eventFailed"}
            /\ pc'[r] \in {"idle", "tableList"}
         \/ /\ pc[r] \in {"redisSetEntry", "redisDelEntry"}
            /\ pc'[r] \in {"redisDelEntry", "redisDelList"}
            /\ arg' = arg
      /\ \A q \in Requests : q # r =>
            pc'[q] = pc[q] /\ arg'[q] = arg[q] /\ got'[q] = got[q]
  BY DEF RedisGetList, RedisSetEntry, RedisDelEntry, EventDone, EventFailed,
     Respond, GoTo, stores, logs, history, TypeOK
<1>2. \A u \in Users : Sweeping(u) => Sweeping(u)'
  BY <1>1, SweepsGoOn
<1>3. QED
  BY <1>1, <1>2, FillUser, QuietStep

(* A GET that has just read the table holds a listing of its rows.           *)
LEMMA TableListStale ==
    ASSUME IInv, NEW r \in Requests, TableList(r)
    PROVE  StaleListIsExplained' /\ StaleFillIsExplained'
<1> USE DEF IInv
<1>1. /\ UNCHANGED <<table, listCache, unswept, overtaken>>
      /\ pc[r] = "tableList"
      /\ pc'[r] = "redisSetList" => got'[r] \in Decoded[table[arg'[r].user]]
      /\ \A q \in Requests : q # r =>
            pc'[q] = pc[q] /\ arg'[q] = arg[q] /\ got'[q] = got[q]
  BY DEF TableList, Respond, stores, logs, history, TypeOK
<1>2. \A u \in Users : Sweeping(u) => Sweeping(u)'
  BY <1>1, SweepsGoOn
<1>3. QED
  BY <1>1, <1>2, FillUser DEF StaleListIsExplained, StaleFillIsExplained

(* A fill that is stored is explained as it was before, or was overtaken.    *)
LEMMA RedisSetListStale ==
    ASSUME IInv, NEW r \in Requests, RedisSetList(r)
    PROVE  StaleListIsExplained' /\ StaleFillIsExplained'
<1> USE DEF IInv
<1> DEFINE u == arg[r].user
<1>1. /\ table' = table
      /\ pc[r] = "redisSetList" /\ pc'[r] = "idle"
      /\ unswept \subseteq unswept'
      /\ overtaken' = overtaken \ {r}
      /\ \A q \in Requests : q # r =>
            pc'[q] = pc[q] /\ arg'[q] = arg[q] /\ got'[q] = got[q]
  BY DEF RedisSetList, Respond, logs, TypeOK
<1>2. u \in Users
  BY <1>1, FillUser
<1>3. \/ listCache' = listCache
      \/ /\ listCache' = [listCache EXCEPT ![u] = got[r]]
         /\ r \in overtaken => u \in unswept'
  BY DEF RedisSetList
<1>4. \A v \in Users : Sweeping(v) => Sweeping(v)'
  BY <1>1, SweepsGoOn
<1>5. StaleListIsExplained'
  <2> SUFFICES ASSUME NEW v \in Users,
                      listCache'[v] \notin {NoList} \cup Decoded[table[v]]
               PROVE  v \in unswept' \/ Sweeping(v)'
    BY <1>1 DEF StaleListIsExplained
  <2>1. CASE listCache'[v] = listCache[v]
    BY <2>1, <1>1, <1>4 DEF StaleListIsExplained
  <2>2. CASE listCache'[v] # listCache[v]
    <3>1. v = u /\ listCache'[v] = got[r] /\ (r \in overtaken => u \in unswept')
      BY <2>2, <1>2, <1>3 DEF TypeOK
    <3>2. CASE r \in overtaken
      BY <3>1, <3>2
    <3>3. CASE r \notin overtaken
      <4>1. u \in unswept \/ Sweeping(u)
        BY <3>1, <3>3, <1>1 DEF StaleFillIsExplained
      <4>2. QED
        BY <4>1, <3>1, <1>1, <1>4
    <3>4. QED
      BY <3>2, <3>3
  <2>3. QED
    BY <2>1, <2>2
<1>6. StaleFillIsExplained'
  BY <1>1, <1>4, FillUser DEF StaleFillIsExplained
<1>7. QED
  BY <1>5, <1>6

(* A change of a row marks its user: by the sweep the request now owes, or   *)
(* in unswept when the table reported an error.                              *)
LEMMA TableWriteStale ==
    ASSUME IInv, NEW r \in Requests, TableUpsert(r) \/ TableDelete(r)
    PROVE  StaleListIsExplained' /\ StaleFillIsExplained'
<1> USE DEF IInv
<1> DEFINE u == arg[r].user
<1>1. /\ UNCHANGED <<listCache, overtaken, arg, got>>
      /\ pc[r] \in {"tableUpsert", "tableDelete"}
      /\ pc'[r] \in {"redisSetEntry", "redisDelEntry", "eventFailed"}
      /\ unswept \subseteq unswept'
      /\ \A q \in Requests : q # r => pc'[q] = pc[q]
  BY DEF TableUpsert, TableDelete, GoTo, logs, TypeOK
<1>2. u \in Users
  BY <1>1 DEF TypeOK, UpsertPCs, DeletePCs, UpsertArgs, DeleteArgs
<1>3. \A v \in Users : Sweeping(v) => Sweeping(v)'
  BY <1>1, SweepsGoOn
<1>4. ASSUME NEW v \in Users, v = u
      PROVE  table' = table \/ v \in unswept' \/ Sweeping(v)'
  <2>1. \/ table' = table
        \/ v \in unswept'
        \/ pc'[r] \in {"redisSetEntry", "redisDelEntry"}
    BY <1>4 DEF TableUpsert, TableDelete, GoTo, TypeOK
  <2>2. QED
    BY <2>1, <1>1, <1>4 DEF Sweeping
<1>5. \A v \in Users : v # u => table'[v] = table[v]
  BY <1>2 DEF TableUpsert, TableDelete, TypeOK
<1>6. \A v \in Users : table'[v] = table[v] \/ v \in unswept' \/ Sweeping(v)'
  BY <1>4, <1>5
<1>7. StaleListIsExplained'
  BY <1>1, <1>3, <1>6 DEF StaleListIsExplained
<1>8. StaleFillIsExplained'
  BY <1>1, <1>3, <1>6, FillUser DEF StaleFillIsExplained
<1>9. QED
  BY <1>7, <1>8

(* A DEL empties the key and marks the fills it cannot reach; one that fails *)
(* is remembered.                                                            *)
LEMMA RedisDelListStale ==
    ASSUME IInv, NEW r \in Requests, RedisDelList(r)
    PROVE  StaleListIsExplained' /\ StaleFillIsExplained'
<1> USE DEF IInv
<1> DEFINE u == arg[r].user
<1>1. /\ UNCHANGED <<table, arg, got>>
      /\ pc[r] = "redisDelList" /\ pc'[r] = "eventDone"
      /\ \A q \in Requests : q # r => pc'[q] = pc[q]
  BY DEF RedisDelList, GoTo, logs, TypeOK
<1>2. u \in Users
  BY <1>1 DEF TypeOK, WritePCs, UpsertArgs, DeleteArgs
<1>3. \A v \in Users : v # u /\ Sweeping(v) => Sweeping(v)'
  BY <1>1 DEF Sweeping
<1>4. CASE /\ listCache' = [listCache EXCEPT ![u] = NoList]
           /\ unswept' = unswept \ {u}
           /\ overtaken' = overtaken \cup Filling(u)
  <2>1. StaleListIsExplained'
    BY <1>1, <1>2, <1>3, <1>4 DEF StaleListIsExplained, TypeOK
  <2>2. StaleFillIsExplained'
    BY <1>1, <1>2, <1>3, <1>4, FillUser DEF StaleFillIsExplained, Filling
  <2>3. QED
    BY <2>1, <2>2
<1>5. CASE unswept' = unswept \cup {u} /\ UNCHANGED <<listCache, overtaken>>
  <2>1. StaleListIsExplained'
    BY <1>1, <1>3, <1>5 DEF StaleListIsExplained
  <2>2. StaleFillIsExplained'
    BY <1>1, <1>3, <1>5, FillUser DEF StaleFillIsExplained
  <2>3. QED
    BY <2>1, <2>2
<1>6. QED
  BY <1>4, <1>5 DEF RedisDelList

(* What a restart interrupts is remembered; no fill survives it.             *)
LEMMA RestartStale ==
    ASSUME IInv, Restart
    PROVE  StaleListIsExplained' /\ StaleFillIsExplained'
<1> USE DEF IInv
<1>1. /\ UNCHANGED <<table, listCache>>
      /\ \A v \in Users : v \in unswept \/ Sweeping(v) => v \in unswept'
      /\ \A q \in Requests : pc'[q] = "idle"
  BY DEF Restart, stores
<1>2. QED
  BY <1>1 DEF StaleListIsExplained, StaleFillIsExplained

LEMMA InitStale == Init => StaleListIsExplained /\ StaleFillIsExplained
  BY DEF Init, StaleListIsExplained, StaleFillIsExplained

LEMMA NextStale == IInv /\ [Next]_vars => StaleListIsExplained' /\ StaleFillIsExplained'
<1> SUFFICES ASSUME IInv, [Next]_vars
             PROVE  StaleListIsExplained' /\ StaleFillIsExplained'
  OBVIOUS
<1>1. ASSUME NEW r \in Requests, NewRequest(r)
      PROVE  StaleListIsExplained' /\ StaleFillIsExplained'
  BY <1>1, NewRequestStale
<1>2. ASSUME NEW r \in Requests, RequestStep(r)
      PROVE  StaleListIsExplained' /\ StaleFillIsExplained'
  BY <1>2, OtherCallStale, TableListStale, RedisSetListStale, TableWriteStale,
     RedisDelListStale DEF RequestStep
<1>3. ASSUME NEW r \in Requests, DeploymentOperationEntry(r)
      PROVE  StaleListIsExplained' /\ StaleFillIsExplained'
  BY <1>3 DEF DeploymentOperationEntry, stores, history, IInv, Sweeping,
     StaleListIsExplained, StaleFillIsExplained
<1>4. CASE Restart
  BY <1>4, RestartStale
<1>5. CASE UNCHANGED vars
  BY <1>5 DEF vars, IInv, Sweeping, StaleListIsExplained, StaleFillIsExplained
<1>6. QED
  BY <1>1, <1>2, <1>3, <1>4, <1>5 DEF Next

LEMMA InductiveInv == Spec => []IInv
<1>1. Init => IInv
  BY InitTypes, InitStale DEF IInv
<1>2. IInv /\ [Next]_vars => IInv'
  BY NextTypes, NextStale DEF IInv
<1>3. QED
  BY <1>1, <1>2, PTL DEF Spec

(* A user's list in Redis is out of date only while its deletion is still to *)
(* come or when the deletion after the last change was lost or raced.        *)
THEOREM StaleListsExplained == Spec => []StaleListIsExplained
<1>1. IInv => StaleListIsExplained
  BY DEF IInv
<1>2. QED
  BY <1>1, InductiveInv, PTL

(* The rows a GET is about to store in Redis are the user's rows of now, or   *)
(* old for one of the same reasons.                                          *)
THEOREM StaleFillsExplained == Spec => []StaleFillIsExplained
<1>1. IInv => StaleFillIsExplained
  BY DEF IInv
<1>2. QED
  BY <1>1, InductiveInv, PTL
-----------------------------------------------------------------------------
(* The history of the rows: it only grows, and what requests, Redis and the  *)
(* operation entries hold has been taken from it.                            *)

Remembers == past' = [u \in Users |-> past[u] \cup {table'[u]}]

LEMMA PastGrows ==
    ASSUME PastIsOfRows, TypeOK', Remembers
    PROVE  /\ PastIsOfRows'
           /\ \A u \in Users : past[u] \subseteq past'[u]
           /\ \A u \in Users : Listings(past[u]) \subseteq Listings(past'[u])
<1>1. PastIsOfRows' /\ \A u \in Users : past[u] \subseteq past'[u]
  BY DEF PastIsOfRows, TypeOK, Remembers
<1> QED
  BY <1>1 DEF Listings

Applied == {"redisSetEntry", "redisDelEntry", "redisDelList", "eventDone"}

\* Request r, and the copies, keep to the history in a step of r.
LEMMA CopiesKept ==
    ASSUME HIInv, TypeOK', Remembers, NEW r \in Requests,
           \A q \in Requests \ {r} :
               /\ pc'[q] = pc[q] /\ arg'[q] = arg[q] /\ got'[q] = got[q]
               /\ entryRun'[q] = entryRun[q],
           \A u \in Users : listCache'[u] \in {listCache[u], NoList} \cup Listings(past[u]),
           pc'[r] = "redisSetList" => got'[r] \in Listings(past'[arg'[r].user]),
           entryRun'[r] # NoArg =>
               \/ entryRun'[r] = entryRun[r]
               \/ \E l \in past[entryRun'[r].user] : l[entryRun'[r].slot] = entryRun'[r].body,
           pc'[r] \in Applied /\ arg'[r].op = "upsert" =>
               \E l \in past'[arg'[r].user] : l[arg'[r].slot] = arg'[r].body
    PROVE  CopiesAreOfPastRows' /\ WritesAreOfPastRows'
<1>1. /\ \A u \in Users : past[u] \subseteq past'[u]
      /\ \A u \in Users : Listings(past[u]) \subseteq Listings(past'[u])
  BY PastGrows DEF HIInv
<1>2. \A u \in Users : listCache'[u] \in Listings(past'[u]) \cup {NoList}
  BY <1>1 DEF HIInv, CopiesAreOfPastRows
<1>3. ASSUME NEW q \in Requests, pc'[q] = "redisSetList"
      PROVE  got'[q] \in Listings(past'[arg'[q].user])
  <2>1. CASE q # r
    <3>1. arg[q].user \in Users
      BY <1>3, <2>1 DEF HIInv, IInv, TypeOK, ListPCs, ListArgs
    <3> QED
      BY <1>1, <1>3, <2>1, <3>1 DEF HIInv, CopiesAreOfPastRows
  <2> QED
    BY <1>3, <2>1
<1>4. ASSUME NEW q \in Requests, entryRun'[q] # NoArg
      PROVE  \E l \in past'[entryRun'[q].user] : l[entryRun'[q].slot] = entryRun'[q].body
  <2>1. entryRun'[q].user \in Users
    BY <1>4 DEF TypeOK, LogRows
  <2>2. \E l \in past[entryRun'[q].user] : l[entryRun'[q].slot] = entryRun'[q].body
    BY <1>4 DEF HIInv, CopiesAreOfPastRows
  <2> QED
    BY <1>1, <2>1, <2>2
<1>5. ASSUME NEW q \in Requests, pc'[q] \in Applied, arg'[q].op = "upsert"
      PROVE  \E l \in past'[arg'[q].user] : l[arg'[q].slot] = arg'[q].body
  <2>1. CASE q # r
    <3>1. arg[q].user \in Users
      BY <1>5, <2>1 DEF HIInv, IInv, TypeOK, UpsertPCs, WritePCs, UpsertArgs, DeleteArgs, Applied
    <3>2. \E l \in past[arg[q].user] : l[arg[q].slot] = arg[q].body
      BY <1>5, <2>1 DEF HIInv, WritesAreOfPastRows, Applied
    <3> QED
      BY <1>1, <2>1, <3>1, <3>2
  <2> QED
    BY <1>5, <2>1
<1> QED
  BY <1>2, <1>3, <1>4, <1>5 DEF CopiesAreOfPastRows, WritesAreOfPastRows, Applied

LEMMA RequestKeepsPast ==
    ASSUME HIInv, TypeOK', Remembers, NEW r \in Requests,
           NewRequest(r) \/ RequestStep(r) \/ DeploymentOperationEntry(r)
    PROVE  CopiesAreOfPastRows' /\ WritesAreOfPastRows'
<1> USE DEF Applied
<1>0. /\ TypeOK
      /\ \A u \in Users : past[u] \subseteq past'[u] /\ table'[u] \in past'[u]
      /\ \A u \in Users : Listings(past[u]) \subseteq Listings(past'[u])
  BY PastGrows DEF HIInv, IInv, PastIsOfRows
<1>1. CASE NewRequest(r)
  <2>1. /\ listCache' = listCache /\ entryRun' = entryRun /\ got' = got
        /\ \A q \in Requests \ {r} : pc'[q] = pc[q] /\ arg'[q] = arg[q]
        /\ pc'[r] \in {"idle", "redisGet", "tableUpsert", "tableDelete"}
    BY <1>0, <1>1 DEF NewRequest, GetUserDeployments, UpsertDeployment, DeleteDeployment,
       RefuseEmptyUpsert, RefuseDefaultDelete, Begin, Refuse, stores, TypeOK
  <2> QED
    BY <2>1, CopiesKept
<1>2. CASE DeploymentOperationEntry(r)
  <2>1. /\ listCache' = listCache /\ got' = got /\ pc' = pc /\ arg' = arg
        /\ entryRun'[r] = NoArg
        /\ \A q \in Requests \ {r} : entryRun'[q] = entryRun[q]
    BY <1>0, <1>2 DEF DeploymentOperationEntry, stores, TypeOK
  <2>2. pc[r] = "redisSetList" =>
            arg[r].user \in Users /\ got[r] \in Listings(past[arg[r].user])
    BY <1>0 DEF HIInv, CopiesAreOfPastRows, TypeOK, ListPCs, ListArgs
  <2>3. pc[r] \in Applied /\ arg[r].op = "upsert" =>
            arg[r].user \in Users /\ \E l \in past[arg[r].user] : l[arg[r].slot] = arg[r].body
    BY <1>0 DEF HIInv, WritesAreOfPastRows, TypeOK, UpsertPCs, WritePCs, UpsertArgs, DeleteArgs
  <2> QED
    BY <1>0, <2>1, <2>2, <2>3, CopiesKept
<1>3. CASE RedisGetList(r)
  <2>1. /\ listCache' = listCache /\ entryRun' = entryRun
        /\ \A q \in Requests \ {r} : pc'[q] = pc[q] /\ arg'[q] = arg[q] /\ got'[q] = got[q]
        /\ pc'[r] \in {"idle", "tableList"}
    BY <1>0, <1>3 DEF RedisGetList, Respond, GoTo, stores, logs, TypeOK
  <2> QED
    BY <2>1, CopiesKept
<1>4. CASE TableList(r)
  <2>1. arg[r].user \in Users
    BY <1>0, <1>4 DEF TableList, TypeOK, ListPCs, ListArgs
  <2>2. /\ listCache' = listCache /\ entryRun' = entryRun
        /\ \A q \in Requests \ {r} : pc'[q] = pc[q] /\ arg'[q] = arg[q] /\ got'[q] = got[q]
        /\ \/ pc'[r] = "idle"
           \/ /\ pc'[r] = "redisSetList" /\ arg'[r] = arg[r]
              /\ got'[r] \in Decoded[table[arg[r].user]] /\ table' = table
    BY <1>0, <1>4 DEF TableList, Respond, stores, logs, TypeOK
  <2>3. Decoded[table[arg[r].user]] \subseteq Listings(past'[arg[r].user])
    <3>1. table[arg[r].user] \in past'[arg[r].user]
      BY <1>0, <2>1 DEF HIInv, PastIsOfRows
    <3> QED
      BY <3>1 DEF Listings
  <2> QED
    BY <1>0, <2>1, <2>2, <2>3, CopiesKept
<1>5. CASE RedisSetList(r)
  <2>1. arg[r].user \in Users /\ got[r] \in Listings(past[arg[r].user])
    BY <1>0, <1>5 DEF RedisSetList, TypeOK, ListPCs, ListArgs, HIInv, CopiesAreOfPastRows
  <2>2. /\ \A u \in Users : listCache'[u] \in {listCache[u]} \cup Listings(past[u])
        /\ entryRun' = entryRun
        /\ \A q \in Requests \ {r} : pc'[q] = pc[q] /\ arg'[q] = arg[q] /\ got'[q] = got[q]
        /\ pc'[r] = "idle"
    BY <1>0, <1>5, <2>1 DEF RedisSetList, Respond, logs, TypeOK
  <2> QED
    BY <2>2, CopiesKept
<1>6. CASE TableUpsert(r)
  <2>1. arg[r] \in UpsertArgs
    BY <1>0, <1>6 DEF TableUpsert, TypeOK, UpsertPCs
  <2>2. /\ listCache' = listCache /\ entryRun' = entryRun /\ arg' = arg /\ got' = got
        /\ \A q \in Requests \ {r} : pc'[q] = pc[q]
        /\ \/ pc'[r] = "eventFailed"
           \/ /\ pc'[r] = "redisSetEntry"
              /\ table' = [table EXCEPT ![arg[r].user][arg[r].slot] = arg[r].body]
    BY <1>0, <1>6 DEF TableUpsert, GoTo, logs, TypeOK
  <2>3. pc'[r] = "redisSetEntry" => table'[arg[r].user][arg[r].slot] = arg[r].body
    BY <1>0, <2>1, <2>2 DEF TypeOK, Lists, UpsertArgs
  <2>4. arg[r].user \in Users
    BY <2>1 DEF UpsertArgs
  <2>5. pc'[r] = "redisSetEntry" =>
            \E l \in past'[arg[r].user] : l[arg[r].slot] = arg[r].body
    BY <1>0, <2>3, <2>4
  <2> QED
    BY <2>2, <2>5, CopiesKept
<1>7. CASE TableDelete(r)
  <2>1. arg[r].op = "delete"
    BY <1>0, <1>7 DEF TableDelete, TypeOK, DeletePCs, DeleteArgs
  <2>2. /\ listCache' = listCache /\ entryRun' = entryRun /\ arg' = arg /\ got' = got
        /\ \A q \in Requests \ {r} : pc'[q] = pc[q]
        /\ pc'[r] \in {"eventFailed", "redisDelEntry"}
    BY <1>0, <1>7 DEF TableDelete, GoTo, logs, TypeOK
  <2> QED
    BY <2>1, <2>2, CopiesKept
<1>8. CASE RedisSetEntry(r) \/ RedisDelEntry(r) \/ RedisDelList(r)
  <2>1. pc[r] \in Applied
    BY <1>8 DEF RedisSetEntry, RedisDelEntry, RedisDelList
  <2>2. arg[r].op = "upsert" =>
            arg[r].user \in Users /\ \E l \in past[arg[r].user] : l[arg[r].slot] = arg[r].body
    BY <1>0, <2>1 DEF HIInv, WritesAreOfPastRows, TypeOK, UpsertPCs, WritePCs, UpsertArgs, DeleteArgs
  <2>3. /\ \A u \in Users : listCache'[u] \in {listCache[u], NoList}
        /\ entryRun' = entryRun /\ arg' = arg /\ got' = got
        /\ \A q \in Requests \ {r} : pc'[q] = pc[q]
        /\ pc'[r] \in Applied
    BY <1>0, <1>8 DEF RedisSetEntry, RedisDelEntry, RedisDelList, GoTo, logs, TypeOK
  <2> QED
    BY <1>0, <2>2, <2>3, CopiesKept
<1>9. CASE EventDone(r)
  <2>1. arg[r].op = "upsert" => \E l \in past[arg[r].user] : l[arg[r].slot] = arg[r].body
    BY <1>0, <1>9 DEF HIInv, WritesAreOfPastRows, EventDone
  <2>2. /\ listCache' = listCache
        /\ \A q \in Requests \ {r} : /\ pc'[q] = pc[q] /\ arg'[q] = arg[q] /\ got'[q] = got[q]
                                     /\ entryRun'[q] = entryRun[q]
        /\ pc'[r] = "idle"
        /\ \/ entryRun' = entryRun
           \/ /\ arg[r].op = "upsert"
              /\ entryRun'[r] = [user |-> arg[r].user, slot |-> arg[r].slot, body |-> arg[r].body]
    BY <1>0, <1>9 DEF EventDone, Respond, stores, TypeOK
  <2> QED
    BY <2>1, <2>2, CopiesKept
<1>10. CASE EventFailed(r)
  <2>1. /\ listCache' = listCache /\ entryRun' = entryRun
        /\ \A q \in Requests \ {r} : pc'[q] = pc[q] /\ arg'[q] = arg[q] /\ got'[q] = got[q]
        /\ pc'[r] = "idle"
    BY <1>0, <1>10 DEF EventFailed, Respond, stores, TypeOK
  <2> QED
    BY <2>1, CopiesKept
<1> QED
  BY <1>1, <1>2, <1>3, <1>4, <1>5, <1>6, <1>7, <1>8, <1>9, <1>10 DEF RequestStep

LEMMA InitHistory == HInit => HIInv
<1> SUFFICES ASSUME HInit PROVE HIInv
  OBVIOUS
<1>1. IInv
  BY InitTypes, InitStale DEF HInit, IInv
<1>2. PastIsOfRows
  BY <1>1 DEF HInit, PastIsOfRows, IInv, TypeOK
<1>3. CopiesAreOfPastRows /\ WritesAreOfPastRows
  BY DEF HInit, Init, CopiesAreOfPastRows, WritesAreOfPastRows
<1> QED
  BY <1>1, <1>2, <1>3 DEF HIInv

LEMMA NextHistory == HIInv /\ [HNext]_historyVars => HIInv'
<1> SUFFICES ASSUME HIInv, [HNext]_historyVars PROVE HIInv'
  OBVIOUS
<1>1. CASE UNCHANGED historyVars
  <2>1. IInv'
    BY <1>1, NextTypes, NextStale DEF HIInv, IInv, historyVars
  <2>2. PastIsOfRows' /\ CopiesAreOfPastRows' /\ WritesAreOfPastRows'
    BY <1>1 DEF historyVars, vars, HIInv, PastIsOfRows, CopiesAreOfPastRows, WritesAreOfPastRows
  <2> QED
    BY <2>1, <2>2 DEF HIInv
<1>2. CASE HNext
  <2>1. IInv'
    BY <1>2, NextTypes, NextStale DEF HNext, HIInv, IInv
  <2>2. TypeOK' /\ Remembers
    BY <1>2, <2>1 DEF IInv, HNext, Remembers
  <2>3. /\ PastIsOfRows' /\ \A u \in Users : past[u] \subseteq past'[u]
        /\ \A u \in Users : Listings(past[u]) \subseteq Listings(past'[u])
    BY <2>2, PastGrows DEF HIInv
  <2>4. CopiesAreOfPastRows' /\ WritesAreOfPastRows'
    <3>1. CASE Restart
      BY <2>3, <3>1 DEF Restart, stores, HIInv, CopiesAreOfPastRows, WritesAreOfPastRows
    <3> QED
      BY <1>2, <2>2, <3>1, RequestKeepsPast DEF HNext, Next
  <2> QED
    BY <2>1, <2>3, <2>4 DEF HIInv
<1> QED
  BY <1>1, <1>2

LEMMA HistoryInvariance == HSpec => []HIInv
  BY InitHistory, NextHistory, PTL DEF HSpec

(* A list in Redis or about to be stored there is a listing of one state the  *)
(* right user's rows have been in, and a row noted as an operation has been  *)
(* in the table as it is.                                                    *)
THEOREM CopiesArePast == HSpec => []CopiesAreOfPastRows
<1>1. HIInv => CopiesAreOfPastRows
  BY DEF HIInv
<1> QED
  BY <1>1, HistoryInvariance, PTL
-----------------------------------------------------------------------------
(* The endpoints implement the registry: where a step leaves the calls and    *)
(* the results that the registry sees, and which of its actions it is.       *)

LEMMA CallIsSome ==
    ASSUME TypeOK, NEW r \in Requests, pc[r] # "idle"
    PROVE  /\ Calls[r] = [phase |-> Phase(pc[r]), user |-> arg[r].user,
                          slot |-> arg[r].slot, body |-> arg[r].body]
           /\ Calls[r] # NoArg
           /\ Calls[r].phase = Phase(pc[r])
           /\ Calls[r].user = arg[r].user
           /\ Calls[r].slot = arg[r].slot
           /\ Calls[r].body = arg[r].body
<1>1. Calls[r] = [phase |-> Phase(pc[r]), user |-> arg[r].user,
                  slot |-> arg[r].slot, body |-> arg[r].body]
  BY DEF Calls, CallAs
<1>2. arg[r] \in ListArgs \cup UpsertArgs \cup DeleteArgs
  BY DEF TypeOK, ListPCs, UpsertPCs, DeletePCs, WritePCs
<1>3. /\ arg[r].user \in Users /\ arg[r].slot \in Slots \cup {NoArg}
      /\ arg[r].body \in Bodies \cup {Absent}
  BY <1>2 DEF ListArgs, UpsertArgs, DeleteArgs
<1>4. Phase(pc[r]) \in {"asked", "applied", "failed"}
  BY DEF Phase
<1> QED
  BY <1>1, <1>3, <1>4, HistoryAssumption

LEMMA PhaseIs ==
    /\ \A at \in ListPCs \cup {"tableUpsert", "tableDelete"} : Phase(at) = "asked"
    /\ Phase("eventFailed") = "failed"
    /\ \A at \in Applied : Phase(at) = "applied"
  BY DEF Phase, ListPCs, Applied

\* A step to another call, seen from outside.
LEMMA MovedCalls ==
    ASSUME TypeOK, NEW r \in Requests, NEW at, pc[r] # "idle", at # "idle", GoTo(r, at)
    PROVE  /\ Calls' = [Calls EXCEPT ![r].phase = Phase(at)]
           /\ Results' = Results
           /\ Phase(at) = Phase(pc[r]) => Calls' = Calls
<1>1. /\ pc'[r] = at /\ arg' = arg /\ reply' = reply
      /\ \A q \in Requests \ {r} : pc'[q] = pc[q]
  BY DEF TypeOK, GoTo
<1>2. Calls = [q \in Requests |-> CallAs(pc[q], arg[q])]
  BY DEF Calls
<1>3. Calls' = [q \in Requests |-> CallAs(pc'[q], arg'[q])]
  BY DEF Calls
<1>4. \A q \in Requests \ {r} : CallAs(pc'[q], arg'[q]) = Calls[q]
  BY <1>1, <1>2
<1>5. CallAs(pc'[r], arg'[r]) = [Calls[r] EXCEPT !.phase = Phase(at)]
  <2>1. CallAs(pc'[r], arg'[r]) = [phase |-> Phase(at), user |-> arg[r].user,
                                   slot |-> arg[r].slot, body |-> arg[r].body]
    BY <1>1 DEF CallAs
  <2>2. Calls[r] = [phase |-> Phase(pc[r]), user |-> arg[r].user,
                    slot |-> arg[r].slot, body |-> arg[r].body]
    BY CallIsSome
  <2> QED
    BY <2>1, <2>2
<1>6. Phase(at) = Phase(pc[r]) => CallAs(pc'[r], arg'[r]) = Calls[r]
  BY <1>1, CallIsSome DEF CallAs
<1>7. Calls' = [Calls EXCEPT ![r] = CallAs(pc'[r], arg'[r])]
  BY <1>2, <1>3, <1>4
<1> QED
  BY <1>1, <1>2, <1>5, <1>6, <1>7 DEF Results

\* An answer, seen from outside.
LEMMA AnsweredCalls ==
    ASSUME TypeOK, NEW r \in Requests, NEW answer, Respond(r, answer)
    PROVE  /\ Calls' = [Calls EXCEPT ![r] = NoArg]
           /\ Results' = [Results EXCEPT ![r] = ResultAs(answer)]
<1>1. /\ pc'[r] = "idle" /\ reply'[r] = answer
      /\ \A q \in Requests \ {r} : pc'[q] = pc[q] /\ arg'[q] = arg[q] /\ reply'[q] = reply[q]
  BY DEF TypeOK, Respond
<1>2. \A q \in Requests \ {r} : CallAs(pc'[q], arg'[q]) = CallAs(pc[q], arg[q])
  BY <1>1
<1>3. CallAs(pc'[r], arg'[r]) = NoArg
  BY <1>1 DEF CallAs
<1>4. Calls' = [Calls EXCEPT ![r] = NoArg]
  BY <1>2, <1>3 DEF Calls
<1>5. Results' = [Results EXCEPT ![r] = ResultAs(answer)]
  BY <1>1 DEF Results
<1> QED
  BY <1>4, <1>5

LEMMA ResultOfCode ==
    /\ ResultAs(Code("none")) = [code |-> "none", list |-> NoArg]
    /\ ResultAs(Code("500")) = [code |-> "error", list |-> NoArg]
    /\ ResultAs(Code("200")) = [code |-> "ok", list |-> NoArg]
    /\ ResultAs(Code("204")) = [code |-> "ok", list |-> NoArg]
  BY DEF ResultAs, Code

LEMMA ResultOfList ==
    ASSUME NEW l \in Lists
    PROVE  ResultAs(ListReply(l)) = [code |-> "ok", list |-> l]
<1>1. l # NoList
  BY DeploymentsAssumption DEF Lists, Slots
<1> QED
  BY <1>1 DEF ResultAs, ListReply

\* An event, seen from outside.
LEMMA NoteIs ==
    ASSUME TypeOK, NEW r \in Requests, NEW reason, event' = [event EXCEPT ![r] = reason]
    PROVE  Notes' = [Notes EXCEPT ![r] = NoteAs(reason)]
<1>1. event'[r] = reason /\ \A q \in Requests \ {r} : event'[q] = event[q]
  BY DEF TypeOK
<1>2. /\ NoteAs(event'[r]) = NoteAs(reason)
      /\ \A q \in Requests \ {r} : NoteAs(event'[q]) = NoteAs(event[q])
  BY <1>1
<1> QED
  BY <1>2 DEF Notes

\* The event a write leaves, if it is not lost.
LEMMA NotesAfter ==
    ASSUME TypeOK, NEW r \in Requests, NEW reason, Record(r, reason)
    PROVE  Notes' \in {Notes, [Notes EXCEPT ![r] = NoteAs(reason)]}
<1>1. CASE UNCHANGED event
  BY <1>1 DEF Notes
<1>2. CASE event' = [event EXCEPT ![r] = reason]
  BY <1>2, NoteIs
<1> QED
  BY <1>1, <1>2 DEF Record

\* A new request, or one refused, has left no event.
LEMMA NoNoteYet ==
    ASSUME TypeOK, NEW r \in Requests, event' = [event EXCEPT ![r] = "none"]
    PROVE  Notes' = [Notes EXCEPT ![r] = "none"]
  BY NoteIs DEF NoteAs

LEMMA NotesStay ==
    ASSUME event' = event
    PROVE  Notes' = Notes
  BY DEF Notes

\* What the code makes of rows it has read is a list the registry allows.
LEMMA DecodedIsListing ==
    ASSUME NEW l \in Lists, NEW m \in Decoded[l]
    PROVE  m \in Registry!Listings(l)
<1>1. m \in {n \in Lists : \A s \in Slots :
          IF l[s] = Absent THEN n[s] = Absent
          ELSE \E t \in Slots : l[t] # Absent /\ n[s] = [l[s] EXCEPT !.lab = l[t].lab]}
  BY Zenon DEF Decoded
<1> QED
  BY <1>1, Zenon DEF Registry!Listings, Lists

\* A step that leaves the table alone leaves its history alone.
LEMMA PastStays ==
    ASSUME PastIsOfRows, Remembers, table' = table
    PROVE  past' = past
  BY DEF PastIsOfRows, Remembers

\* A write of one row is a change of the registry.
LEMMA PastChanges ==
    ASSUME TypeOK, PastIsOfRows, Remembers, NEW u \in Users, NEW s \in Slots,
           NEW b \in Bodies \cup {Absent}, table' = [table EXCEPT ![u][s] = b]
    PROVE  Registry!Change(u, s, b)
<1>1. \A v \in Users \ {u} : table'[v] = table[v]
  BY DEF TypeOK
<1>2. \A v \in Users \ {u} : past[v] \cup {table'[v]} = past[v]
  BY <1>1 DEF PastIsOfRows
<1>3. past' = [past EXCEPT ![u] = @ \cup {table'[u]}]
  BY <1>2 DEF PastIsOfRows, Remembers
<1> QED
  BY <1>3 DEF Registry!Change

LEMMA NewRequestImplements ==
    ASSUME TypeOK, PastIsOfRows, Remembers, NEW r \in Requests, NewRequest(r)
    PROVE  Registry!Next
<1>1. Calls[r] = NoArg /\ table' = table /\ opLog' = opLog
  BY DEF NewRequest, GetUserDeployments, UpsertDeployment, DeleteDeployment,
     RefuseEmptyUpsert, RefuseDefaultDelete, Begin, Refuse, stores, Calls, CallAs
<1>2. past' = past
  BY <1>1, PastStays
<1>0. Notes' = [Notes EXCEPT ![r] = "none"]
  BY NoNoteYet DEF NewRequest, GetUserDeployments, UpsertDeployment, DeleteDeployment,
     RefuseEmptyUpsert, RefuseDefaultDelete, Begin, Refuse
<1>3. ASSUME NEW a, NEW at \in ListPCs \cup {"tableUpsert", "tableDelete"}, Begin(r, a, at)
      PROVE  /\ Calls' = [Calls EXCEPT ![r] = Registry!Call("asked", a.user, a.slot, a.body)]
             /\ Results' = [Results EXCEPT ![r] = Registry!NoResult]
  <2>1. /\ pc'[r] = at /\ arg'[r] = a /\ reply'[r] = Code("none")
        /\ \A q \in Requests \ {r} : pc'[q] = pc[q] /\ arg'[q] = arg[q] /\ reply'[q] = reply[q]
    BY <1>3 DEF TypeOK, Begin
  <2>2. CallAs(pc'[r], arg'[r]) = Registry!Call("asked", a.user, a.slot, a.body)
    BY <2>1, PhaseIs DEF CallAs, Registry!Call, ListPCs
  <2>3. ResultAs(reply'[r]) = Registry!NoResult
    BY <2>1, ResultOfCode DEF Registry!NoResult
  <2>4. Calls' = [Calls EXCEPT ![r] = CallAs(pc'[r], arg'[r])]
    BY <2>1 DEF Calls
  <2>5. Results' = [Results EXCEPT ![r] = ResultAs(reply'[r])]
    BY <2>1 DEF Results
  <2> QED
    BY <2>2, <2>3, <2>4, <2>5
<1>4. ASSUME NEW u \in Users, GetUserDeployments(r, u) PROVE Registry!Next
  <2>1. Registry!AskList(r)
    BY <1>0, <1>1, <1>2, <1>3, <1>4 DEF GetUserDeployments, Registry!AskList, ListPCs
  <2> QED
    BY <2>1 DEF Registry!Next
<1>5. ASSUME NEW u \in Users, NEW s \in Slots, NEW b \in Bodies, UpsertDeployment(r, u, s, b)
      PROVE  Registry!Next
  <2>1. Registry!AskWrite(r)
    BY <1>0, <1>1, <1>2, <1>3, <1>5 DEF UpsertDeployment, Registry!AskWrite
  <2> QED
    BY <2>1 DEF Registry!Next
<1>6. ASSUME NEW u \in Users, NEW s \in Slots, DeleteDeployment(r, u, s)
      PROVE  Registry!Next
  <2>1. Registry!AskWrite(r)
    BY <1>0, <1>1, <1>2, <1>3, <1>6 DEF DeleteDeployment, Registry!AskWrite
  <2> QED
    BY <2>1 DEF Registry!Next
<1>7. ASSUME NEW c \in {"500", "204"}, Refuse(r, Code(c)) PROVE Registry!Next
  <2>1. Calls' = [Calls EXCEPT ![r] = NoArg]
    BY <1>1, <1>7 DEF Refuse, Calls
  <2>2. Results' = [Results EXCEPT ![r] = ResultAs(Code(c))]
    BY <1>7 DEF Refuse, Results, TypeOK
  <2>3. Registry!Decline(r)
    BY <1>0, <1>1, <1>2, <2>1, <2>2, ResultOfCode DEF Registry!Decline, Registry!Answer
  <2> QED
    BY <2>3 DEF Registry!Next
<1> QED
  BY <1>4, <1>5, <1>6, <1>7 DEF NewRequest, RefuseEmptyUpsert, RefuseDefaultDelete

\* A GET that ends with the list or the error it answers.
LEMMA ListAnswerImplements ==
    ASSUME HIInv, Remembers, NEW r \in Requests, pc[r] \in ListPCs, NEW answer,
           Respond(r, answer), table' = table, opLog' = opLog, event' = event,
           \/ answer = Code("500")
           \/ \E m \in Listings(past[arg[r].user]) : answer = ListReply(m)
    PROVE  Registry!Next
<1>1. TypeOK /\ past' = past
  BY PastStays DEF HIInv, IInv
<1>2. Calls[r] # NoArg /\ Calls[r].slot = NoArg /\ Calls[r].user = arg[r].user
  BY <1>1, CallIsSome DEF TypeOK, ListPCs, ListArgs
<1>3. /\ Calls' = [Calls EXCEPT ![r] = NoArg]
      /\ Results' = [Results EXCEPT ![r] = ResultAs(answer)]
  BY <1>1, AnsweredCalls
<1>4. \/ ResultAs(answer) = [code |-> "error", list |-> NoArg]
      \/ \E l \in past[arg[r].user] : \E m \in Registry!Listings(l) :
            ResultAs(answer) = [code |-> "ok", list |-> m]
  <2>1. CASE answer = Code("500")
    BY <2>1, ResultOfCode
  <2>2. ASSUME NEW m \in Listings(past[arg[r].user]), answer = ListReply(m)
        PROVE  \E l \in past[arg[r].user] :
                  m \in Registry!Listings(l) /\ ResultAs(answer) = [code |-> "ok", list |-> m]
    <3>1. past[arg[r].user] \subseteq Lists
      BY <1>1 DEF HIInv, PastIsOfRows, TypeOK, ListPCs, ListArgs
    <3>2. PICK l \in past[arg[r].user] : m \in Decoded[l]
      BY DEF Listings
    <3>3. m \in Lists /\ m \in Registry!Listings(l)
      BY <3>1, <3>2, DecodedAreLists, DecodedIsListing
    <3> QED
      BY <2>2, <3>3, ResultOfList
  <2> QED
    BY <2>1, <2>2
<1>5. Registry!AnswerList(r)
  BY <1>1, <1>2, <1>3, <1>4, NotesStay DEF Registry!AnswerList, Registry!Answer
<1> QED
  BY <1>5 DEF Registry!Next

\* A PUT or DELETE that ends.
LEMMA WriteAnswerImplements ==
    ASSUME HIInv, Remembers, NEW r \in Requests, NEW c \in {"200", "204", "500"},
           pc[r] = IF c = "500" THEN "eventFailed" ELSE "eventDone",
           Respond(r, Code(c)), table' = table, opLog' = opLog,
           NEW reason, Record(r, reason), NoteAs(reason) = IF c = "500" THEN "error" ELSE "ok"
    PROVE  Registry!Next
<1>1. TypeOK /\ past' = past
  BY PastStays DEF HIInv, IInv
<1>2. /\ Calls[r] # NoArg
      /\ Calls[r].phase = IF c = "500" THEN "failed" ELSE "applied"
  BY <1>1, CallIsSome, PhaseIs DEF Applied
<1>3. /\ Calls' = [Calls EXCEPT ![r] = NoArg]
      /\ Results' = [Results EXCEPT ![r] = ResultAs(Code(c))]
  BY <1>1, AnsweredCalls
<1>0. Notes' \in {Notes, [Notes EXCEPT ![r] = NoteAs(reason)]}
  BY <1>1, NotesAfter
<1>4. Registry!AnswerWrite(r)
  BY <1>0, <1>1, <1>2, <1>3, ResultOfCode
     DEF Registry!AnswerWrite, Registry!EndWrite, Registry!Answer
<1> QED
  BY <1>4 DEF Registry!Next

\* A call between two others of the same phase.
LEMMA InnerStep ==
    ASSUME HIInv, Remembers, NEW r \in Requests, NEW at, pc[r] # "idle", at # "idle",
           Phase(at) = Phase(pc[r]), GoTo(r, at), table' = table, opLog' = opLog,
           event' = event
    PROVE  UNCHANGED Registry!regVars
<1>1. TypeOK /\ past' = past
  BY PastStays DEF HIInv, IInv
<1> QED
  BY <1>1, MovedCalls, NotesStay DEF Registry!regVars

\* The call of a PUT or DELETE to the table.
LEMMA TableWriteImplements ==
    ASSUME HIInv, Remembers, NEW r \in Requests, TableUpsert(r) \/ TableDelete(r)
    PROVE  Registry!Next
<1> DEFINE u == arg[r].user
           s == arg[r].slot
           b == arg[r].body
<1>1. TypeOK /\ PastIsOfRows
  BY DEF HIInv, IInv
<1>2. /\ pc[r] \in {"tableUpsert", "tableDelete"}
      /\ opLog' = opLog /\ Notes' = Notes
  BY NotesStay DEF TableUpsert, TableDelete, logs
<1>3. /\ u \in Users /\ s \in Slots /\ b \in Bodies \cup {Absent}
      /\ b = Absent <=> pc[r] = "tableDelete"
  BY <1>1, <1>2, DeploymentsAssumption DEF TypeOK, UpsertPCs, DeletePCs, UpsertArgs, DeleteArgs
<1>4. /\ Calls[r] # NoArg /\ Calls[r].phase = "asked" /\ Calls[r].slot # NoArg
      /\ Calls[r].user = u /\ Calls[r].slot = s /\ Calls[r].body = b
  BY <1>1, <1>2, <1>3, CallIsSome, PhaseIs, HistoryAssumption
<1>5. table' = [table EXCEPT ![u][s] = b] => Registry!Change(u, s, b)
  BY <1>1, <1>3, PastChanges
<1>6. CASE /\ GoTo(r, "eventFailed")
           /\ table' = table \/ table' = [table EXCEPT ![u][s] = b]
  <2>1. Calls' = [Calls EXCEPT ![r].phase = "failed"] /\ Results' = Results
    BY <1>1, <1>2, <1>6, MovedCalls, PhaseIs
  <2>2. table' = table => past' = past
    BY <1>1, PastStays
  <2>3. Registry!Fail(r)
    BY <1>2, <1>4, <1>5, <1>6, <2>1, <2>2 DEF Registry!Fail
  <2> QED
    BY <2>3 DEF Registry!Next
<1>7. CASE /\ GoTo(r, "redisSetEntry") \/ GoTo(r, "redisDelEntry")
           /\ table' = [table EXCEPT ![u][s] = b]
           /\ b = Absent => table[u][s] # Absent
  <2>1. Calls' = [Calls EXCEPT ![r].phase = "applied"] /\ Results' = Results
    BY <1>1, <1>2, <1>7, MovedCalls, PhaseIs DEF Applied
  <2>2. Registry!Apply(r)
    BY <1>2, <1>4, <1>5, <1>7, <2>1 DEF Registry!Apply
  <2> QED
    BY <2>2 DEF Registry!Next
<1> QED
  BY <1>2, <1>3, <1>6, <1>7 DEF TableUpsert, TableDelete

LEMMA OperationEntryImplements ==
    ASSUME HIInv, Remembers, NEW r \in Requests, DeploymentOperationEntry(r)
    PROVE  Registry!Next \/ UNCHANGED Registry!regVars
<1> DEFINE e == entryRun[r]
<1>1. TypeOK /\ past' = past
  BY PastStays DEF HIInv, IInv, DeploymentOperationEntry, stores
<1>2. table' = table /\ Calls' = Calls /\ Results' = Results /\ Notes' = Notes
  BY DEF DeploymentOperationEntry, stores, Calls, Results, Notes
<1>3. CASE opLog' = opLog
  BY <1>1, <1>2, <1>3 DEF Registry!regVars
<1>4. CASE opLog' = opLog \cup {e}
  <2>1. e \in LogRows /\ \E l \in past[e.user] : l[e.slot] = e.body
    BY <1>1 DEF DeploymentOperationEntry, TypeOK, HIInv, CopiesAreOfPastRows
  <2>2. /\ e.user \in Users /\ e.slot \in Slots /\ e.body \in Bodies
        /\ e = [user |-> e.user, slot |-> e.slot, body |-> e.body]
    BY <2>1 DEF LogRows
  <2>3. Registry!LogOperation
    BY <1>1, <1>2, <1>4, <2>1, <2>2 DEF Registry!LogOperation
  <2> QED
    BY <2>3 DEF Registry!Next
<1> QED
  BY <1>3, <1>4 DEF DeploymentOperationEntry

LEMMA NoteOfReason ==
    /\ NoteAs("DeploymentUpdated") = "ok" /\ NoteAs("DeploymentDeleted") = "ok"
    /\ NoteAs("DeploymentUpdateFailed") = "error" /\ NoteAs("DeploymentDeleteFailed") = "error"
  BY DEF NoteAs

LEMMA RequestStepImplements ==
    ASSUME HIInv, Remembers, NEW r \in Requests, RequestStep(r)
    PROVE  Registry!Next \/ UNCHANGED Registry!regVars
<1>1. TypeOK /\ PastIsOfRows /\ CopiesAreOfPastRows
  BY DEF HIInv, IInv
<1>2. CASE RedisGetList(r)
  <2>1. /\ pc[r] = "redisGet" /\ table' = table /\ opLog' = opLog /\ event' = event
        /\ arg[r].user \in Users
    BY <1>1, <1>2 DEF RedisGetList, stores, logs, TypeOK, ListPCs, ListArgs
  <2>2. CASE GoTo(r, "tableList")
    BY <2>1, <2>2, InnerStep, PhaseIs DEF ListPCs
  <2>3. CASE listCache[arg[r].user] # NoList /\ Respond(r, ListReply(listCache[arg[r].user]))
    <3>1. listCache[arg[r].user] \in Listings(past[arg[r].user])
      BY <1>1, <2>1, <2>3 DEF TypeOK, CopiesAreOfPastRows
    <3> QED
      BY <2>1, <2>3, <3>1, ListAnswerImplements DEF ListPCs
  <2> QED
    BY <1>2, <2>2, <2>3 DEF RedisGetList
<1>3. CASE TableList(r)
  <2>1. pc[r] = "tableList" /\ table' = table /\ opLog' = opLog /\ event' = event
    BY <1>3 DEF TableList, stores, logs
  <2>2. CASE pc' = [pc EXCEPT ![r] = "redisSetList"] /\ UNCHANGED <<arg, reply>>
    <3>1. /\ \A q \in Requests : CallAs(pc'[q], arg'[q]) = CallAs(pc[q], arg[q])
          /\ Results' = Results
      BY <1>1, <2>1, <2>2, PhaseIs DEF CallAs, ListPCs, Results, TypeOK
    <3>2. Calls' = Calls /\ past' = past /\ Notes' = Notes
      BY <1>1, <2>1, <3>1, PastStays, NotesStay DEF Calls
    <3> QED
      BY <2>1, <3>1, <3>2 DEF Registry!regVars
  <2>3. CASE Respond(r, Code("500"))
    BY <2>1, <2>3, ListAnswerImplements DEF ListPCs
  <2> QED
    BY <1>3, <2>2, <2>3 DEF TableList
<1>4. CASE RedisSetList(r)
  <2>1. /\ pc[r] = "redisSetList" /\ table' = table /\ opLog' = opLog /\ event' = event
        /\ Respond(r, ListReply(got[r]))
        /\ got[r] \in Listings(past[arg[r].user])
    BY <1>1, <1>4 DEF RedisSetList, logs, TypeOK, CopiesAreOfPastRows
  <2> QED
    BY <2>1, ListAnswerImplements DEF ListPCs
<1>5. CASE TableUpsert(r) \/ TableDelete(r)
  BY <1>5, TableWriteImplements
<1>6. CASE RedisSetEntry(r) \/ RedisDelEntry(r) \/ RedisDelList(r)
  <2>1. PICK at \in Applied : GoTo(r, at)
    BY <1>6 DEF RedisSetEntry, RedisDelEntry, RedisDelList, Applied
  <2>2. pc[r] \in Applied /\ table' = table /\ opLog' = opLog /\ event' = event
    BY <1>6 DEF RedisSetEntry, RedisDelEntry, RedisDelList, Applied, logs
  <2> QED
    BY <2>1, <2>2, InnerStep, PhaseIs DEF Applied
<1>7. CASE EventDone(r) \/ EventFailed(r)
  <2>1. /\ table' = table /\ opLog' = opLog
        /\ \E c \in {"200", "204", "500"}, reason \in Reasons :
             /\ pc[r] = IF c = "500" THEN "eventFailed" ELSE "eventDone"
             /\ Respond(r, Code(c))
             /\ Record(r, reason)
             /\ NoteAs(reason) = IF c = "500" THEN "error" ELSE "ok"
    BY <1>7, NoteOfReason DEF EventDone, EventFailed, stores, Reasons
  <2> QED
    BY <2>1, WriteAnswerImplements
<1> QED
  BY <1>2, <1>3, <1>4, <1>5, <1>6, <1>7 DEF RequestStep

LEMMA RestartImplements ==
    ASSUME HIInv, Remembers, Restart
    PROVE  Registry!Next
<1>1. table' = table /\ past' = past /\ opLog' = opLog
  BY PastStays DEF HIInv, Restart, stores
<1>2. Calls' = [r \in Requests |-> NoArg]
  BY DEF Restart, Calls, CallAs
<1>3. Results' = [r \in Requests |-> Registry!NoResult]
  BY ResultOfCode DEF Restart, Results, Registry!NoResult
<1>4. Notes' = [r \in Requests |-> "none"]
  BY DEF Restart, Notes, NoteAs
<1>5. Registry!Forget
  BY <1>1, <1>2, <1>3, <1>4 DEF Registry!Forget
<1> QED
  BY <1>5 DEF Registry!Next

LEMMA NextImplements ==
    ASSUME HIInv, HNext
    PROVE  [Registry!Next]_Registry!regVars
<1>1. TypeOK /\ PastIsOfRows /\ Remembers
  BY DEF HIInv, IInv, HNext, Remembers
<1> QED
  BY <1>1, NewRequestImplements, RequestStepImplements, OperationEntryImplements,
     RestartImplements DEF HNext, Next

LEMMA InitImplements == HInit => Registry!Init
<1> SUFFICES ASSUME HInit PROVE Registry!Init
  OBVIOUS
<1>1. Calls = [r \in Requests |-> NoArg]
  BY DEF HInit, Init, Calls, CallAs
<1>2. Results = [r \in Requests |-> Registry!NoResult]
  BY ResultOfCode DEF HInit, Init, Results, Registry!NoResult
<1>3. Notes = [r \in Requests |-> "none"]
  BY DEF HInit, Init, Notes, NoteAs
<1> QED
  BY <1>1, <1>2, <1>3 DEF HInit, Init, EmptyList, Registry!Init

(* For any number of requests and users: through caches, overtaken and failing *)
(* calls and restarts, the endpoints are the atomic registry of rows that      *)
(* DeploymentRegistry describes.                                              *)
THEOREM EndpointsImplementRegistry == HSpec => ImplementsRegistry
<1>1. HIInv /\ [HNext]_historyVars => [Registry!Next]_Registry!regVars
  <2> SUFFICES ASSUME HIInv, [HNext]_historyVars PROVE [Registry!Next]_Registry!regVars
    OBVIOUS
  <2>1. CASE UNCHANGED historyVars
    BY <2>1 DEF historyVars, vars, Registry!regVars, Calls, Results, Notes
  <2> QED
    BY <2>1, NextImplements
<1> QED
  BY <1>1, InitImplements, HistoryInvariance, PTL DEF HSpec, ImplementsRegistry, Registry!Spec
=============================================================================
