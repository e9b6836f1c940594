------------------------------ MODULE HubProofs ------------------------------
(***************************************************************************)
(* Proofs about Hub: the endpoints and the monitor together, for any       *)
(* users, slots, bodies, number of overlapping requests, time and retries. *)
(***************************************************************************)
EXTENDS Hub, DeploymentsProofs

-----------------------------------------------------------------------------
(* What is proved of the monitor by itself.                                 *)

MP == INSTANCE DeploymentMonitorProofs

(* What DeploymentMonitor assumes of its constants holds of the hub's.      *)
LEMMA MonitorConstants == MP!MonitorAssumption
  BY HubAssumption, DeploymentsAssumption DEF MP!MonitorAssumption, MP!Rows

LEMMA MonitorInvIsInductive ==
    /\ Monitor!Init => Monitor!IInv
    /\ Monitor!IInv /\ [Monitor!Next]_Monitor!vars => Monitor!IInv'
<1>1. Monitor!IInv = MP!IInv
  BY DEF Monitor!IInv, MP!IInv, Monitor!RecentInv, MP!RecentInv, Monitor!TypeOK,
     MP!TypeOK, Monitor!PollIsRecent, MP!PollIsRecent, Monitor!Polling, MP!Polling,
     Monitor!RowsReadOnce, MP!RowsReadOnce, Monitor!DestroysWhatThePollSaw,
     MP!DestroysWhatThePollSaw, Monitor!OnePostPerPoll, MP!OnePostPerPoll,
     Monitor!Due, MP!Due, Monitor!Rows, MP!Rows, Monitor!AllRows, MP!AllRows
<1>2. Monitor!IInv' = MP!IInv'
  BY DEF Monitor!IInv, MP!IInv, Monitor!RecentInv, MP!RecentInv, Monitor!TypeOK,
     MP!TypeOK, Monitor!PollIsRecent, MP!PollIsRecent, Monitor!Polling, MP!Polling,
     Monitor!RowsReadOnce, MP!RowsReadOnce, Monitor!DestroysWhatThePollSaw,
     MP!DestroysWhatThePollSaw, Monitor!OnePostPerPoll, MP!OnePostPerPoll,
     Monitor!Due, MP!Due, Monitor!Rows, MP!Rows, Monitor!AllRows, MP!AllRows
<1>3. Monitor!Init => MP!Init
  BY DEF Monitor!Init, MP!Init
<1>4. Monitor!Next = MP!Next
  BY DEF Monitor!Next, MP!Next, Monitor!ChangeRow, MP!ChangeRow, Monitor!Clock,
     MP!Clock, Monitor!Signal, MP!Signal, Monitor!Restart, MP!Restart, Monitor!Rest,
     MP!Rest, Monitor!Tick, MP!Tick, Monitor!Stop, MP!Stop, Monitor!ReadPage,
     MP!ReadPage, Monitor!RowsOf, MP!RowsOf, Monitor!ReadFails, MP!ReadFails,
     Monitor!Panic, MP!Panic, Monitor!PassOver, MP!PassOver,
     Monitor!AutoDestroyDeployment, MP!AutoDestroyDeployment, Monitor!Due, MP!Due,
     Monitor!Deliver, MP!Deliver, Monitor!CallFails, MP!CallFails,
     Monitor!ServerAnswers, MP!ServerAnswers, Monitor!NextRow, MP!NextRow,
     Monitor!PollEnds, MP!PollEnds, Monitor!Rows, MP!Rows, Monitor!AllRows, MP!AllRows
<1>5. (UNCHANGED Monitor!vars) = (UNCHANGED MP!vars)
  BY DEF Monitor!vars, MP!vars
<1>6. MP!Init => MP!IInv
  BY MonitorConstants, MP!InductiveIInv DEF MP!InductiveIInv
<1>7. MP!IInv /\ [MP!Next]_MP!vars => MP!IInv'
  BY MonitorConstants, MP!InductiveIInv DEF MP!InductiveIInv
<1>8. Monitor!Init => Monitor!IInv
  BY <1>1, <1>3, <1>6
<1>9. Monitor!IInv /\ [Monitor!Next]_Monitor!vars => Monitor!IInv'
  BY <1>1, <1>2, <1>4, <1>5, <1>7
<1>10. QED
  BY <1>8, <1>9

-----------------------------------------------------------------------------
(* What a step of a request does to the table, to itself and to the others. *)

StepOf(q) == NewRequest(q) \/ RequestStep(q) \/ DeploymentOperationEntry(q)

\* The step is the table call of request q.
RowWritten(q) ==
    /\ pc[q] \in {"tableUpsert", "tableDelete"}
    /\ table' = [table EXCEPT ![arg[q].user][arg[q].slot] = arg[q].body]

LEMMA WriterArg ==
    ASSUME TypeOK, NEW q \in Requests,
           pc[q] \in {"tableUpsert", "tableDelete"} \cup Tail
    PROVE  /\ arg[q].op # "list"
           /\ arg[q].user \in Users
           /\ arg[q].slot \in Slots
           /\ arg[q].body \in Bodies \cup {Absent}
           /\ pc[q] = "tableDelete" => arg[q].body = Absent
  BY DEF TypeOK, UpsertPCs, DeletePCs, WritePCs, Tail, UpsertArgs, DeleteArgs

LEMMA NewRequestEffect ==
    ASSUME TypeOK, NEW q \in Requests, NewRequest(q)
    PROVE  /\ \A r \in Requests \ {q} :
                  pc'[r] = pc[r] /\ arg'[r] = arg[r] /\ reply'[r] = reply[r]
           /\ table' = table
           /\ pc[q] = "idle"
           /\ pc'[q] \in {"idle", "redisGet", "tableUpsert", "tableDelete"}
  BY DEF NewRequest, GetUserDeployments, UpsertDeployment, DeleteDeployment,
     RefuseEmptyUpsert, RefuseDefaultDelete, Begin, Refuse, stores, history, TypeOK

LEMMA RequestStepEffect ==
    ASSUME TypeOK, NEW q \in Requests, RequestStep(q)
    PROVE  /\ \A r \in Requests \ {q} :
                  pc'[r] = pc[r] /\ arg'[r] = arg[r] /\ reply'[r] = reply[r]
           /\ table' = table \/ RowWritten(q)
           /\ pc[q] # "idle"
           /\ pc'[q] # "idle" => arg'[q] = arg[q]
           /\ pc'[q] \in Tail => (pc[q] \in Tail /\ table' = table) \/ RowWritten(q)
           /\ pc'[q] = "idle" /\ reply'[q].code \in {"200", "204"}
                => arg[q].op = "list" \/ (pc[q] = "eventDone" /\ table' = table)
<1>1. CASE RedisGetList(q) \/ TableList(q) \/ RedisSetList(q)
  <2>1. arg[q].op = "list" /\ table' = table
    BY <1>1 DEF RedisGetList, TableList, RedisSetList, TypeOK, ListPCs, ListArgs, stores
  <2>2. QED
    BY <1>1, <2>1 DEF RedisGetList, TableList, RedisSetList, Respond, GoTo, TypeOK, Tail
<1>2. CASE TableUpsert(q)
  BY <1>2 DEF TableUpsert, GoTo, TypeOK, Tail, RowWritten
<1>3. CASE TableDelete(q)
  <2>1. arg[q].body = Absent
    BY <1>3, WriterArg DEF TableDelete
  <2>2. QED
    BY <1>3, <2>1 DEF TableDelete, GoTo, TypeOK, Tail, RowWritten
<1>4. CASE RedisSetEntry(q) \/ RedisDelEntry(q) \/ RedisDelList(q)
  BY <1>4 DEF RedisSetEntry, RedisDelEntry, RedisDelList, GoTo, TypeOK, Tail
<1>5. CASE EventDone(q)
  BY <1>5 DEF EventDone, Respond, stores, TypeOK, Tail
<1>6. CASE EventFailed(q)
  <2>1. reply'[q].code = "500"
    BY <1>6 DEF EventFailed, Respond, Code, TypeOK
  <2>2. QED
    BY <1>6, <2>1 DEF EventFailed, Respond, stores, TypeOK, Tail
<1>7. QED
  BY <1>1, <1>2, <1>3, <1>4, <1>5, <1>6 DEF RequestStep

(* The three kinds of step together.                                        *)
LEMMA OwnStep ==
    ASSUME TypeOK, NEW q \in Requests, StepOf(q)
    PROVE  /\ \A r \in Requests \ {q} :
                  pc'[r] = pc[r] /\ arg'[r] = arg[r] /\ reply'[r] = reply[r]
           /\ table' = table \/ RowWritten(q)
           /\ pc[q] = "idle" => pc'[q] \notin Tail
           /\ pc[q] # "idle" /\ pc'[q] # "idle" => arg'[q] = arg[q]
           /\ pc'[q] \in Tail => (pc[q] \in Tail /\ table' = table) \/ RowWritten(q)
           /\ pc[q] # "idle" /\ pc'[q] = "idle" /\ reply'[q].code \in {"200", "204"}
                => arg[q].op = "list" \/ (pc[q] = "eventDone" /\ table' = table)
<1>1. CASE NewRequest(q)
  BY <1>1, NewRequestEffect DEF Tail
<1>2. CASE RequestStep(q)
  BY <1>2, RequestStepEffect
<1>3. CASE DeploymentOperationEntry(q)
  BY <1>3 DEF DeploymentOperationEntry, stores, Tail
<1>4. QED
  BY <1>1, <1>2, <1>3 DEF StepOf

-----------------------------------------------------------------------------
(* A step of the hub is a step of the endpoints and one of the monitor.     *)

LEMMA MonitorStepEffect ==
    ASSUME MonitorStep
    PROVE  /\ table' = table /\ UNCHANGED vars
           /\ Monitor!Next
<1>1. CASE Monitor!Clock \/ Monitor!Signal \/ Monitor!Tick \/ Monitor!Stop
  BY <1>1 DEF MonitorStep, endpointVars, vars, Monitor!Next, Monitor!Clock,
     Monitor!Signal, Monitor!Tick, Monitor!Stop
<1>2. CASE (\E u \in Users : ReadPage(u)) \/ Monitor!ReadFails
  BY <1>2 DEF MonitorStep, endpointVars, vars, ReadPage, Monitor!Next,
     Monitor!ReadPage, Monitor!ReadFails
<1>3. CASE retries > 0 /\ Monitor!Panic
  BY <1>3, HubAssumption
     DEF MonitorStep, endpointVars, vars, Monitor!Next, Monitor!Panic, Monitor!Restart
<1>4. CASE \E d \in Monitor!Rows : Monitor!PassOver(d) \/ Monitor!AutoDestroyDeployment(d)
  BY <1>4 DEF MonitorStep, endpointVars, vars, Monitor!Next, Monitor!PassOver,
     Monitor!AutoDestroyDeployment
<1>5. CASE \/ Monitor!Deliver \/ Monitor!CallFails \/ Monitor!ServerAnswers
           \/ Monitor!PollEnds
  BY <1>5 DEF MonitorStep, endpointVars, vars, Monitor!Next, Monitor!Deliver,
     Monitor!CallFails, Monitor!ServerAnswers, Monitor!NextRow, Monitor!PollEnds
<1>6. QED
  BY <1>1, <1>2, <1>3, <1>4, <1>5 DEF MonitorStep

LEMMA EndpointRefinement == HubNext => [Next]_vars
<1>1. EndpointStep => Next
  BY DEF EndpointStep, Next
<1>2. HubRestart => Next
  BY DEF HubRestart, Next
<1>3. QED
  BY <1>1, <1>2, MonitorStepEffect DEF HubNext

(* A step of a request is a change of one row or, to the monitor, no step:  *)
(* while a poll is on it has seen all rows there are.                       *)
LEMMA EndpointStepIsRowChange ==
    ASSUME TypeOK, Monitor!IInv, EndpointStep
    PROVE  [Monitor!Next]_Monitor!vars
<1>1. PICK q \in Requests : StepOf(q)
  BY DEF EndpointStep, StepOf
<1>2. /\ UNCHANGED <<now, mon, unread, batch, calling, retries, cancelled>>
      /\ seen' = IF Monitor!Polling THEN seen \cup Monitor!AllRows' ELSE seen
  BY DEF EndpointStep, monitorVars
<1>3. /\ Monitor!Polling => Monitor!AllRows \subseteq seen
      /\ mon \in {"waiting", "reading", "acting", "calling", "delivered", "stopped"}
  BY DEF Monitor!IInv, Monitor!RecentInv, Monitor!TypeOK, Monitor!PollIsRecent
<1>4. CASE table' = table
  <2>1. Monitor!AllRows' = Monitor!AllRows
    BY <1>4 DEF Monitor!AllRows, Monitor!Rows
  <2>2. seen' = seen
    BY <2>1, <1>2, <1>3
  <2>3. QED
    BY <2>2, <1>2, <1>4 DEF Monitor!vars
<1>5. CASE table' # table
  <2> DEFINE u == arg[q].user
             s == arg[q].slot
             b == arg[q].body
  <2>1. RowWritten(q)
    BY <1>1, <1>5, OwnStep
  <2>2. u \in Users /\ s \in Slots /\ b \in Bodies \cup {Absent}
    BY <2>1, WriterArg DEF RowWritten
  <2>3. table' = [table EXCEPT ![u][s] = b]
    BY <2>1 DEF RowWritten
  <2>4. table[u][s] # b
    BY <2>2, <2>3, <1>5 DEF TypeOK, Lists
  <2>5. seen' = IF mon \in {"waiting", "stopped"} THEN seen ELSE seen \cup Monitor!AllRows'
    BY <1>2, <1>3 DEF Monitor!Polling
  <2>6. Monitor!ChangeRow(u, s, b)
    BY <2>3, <2>4, <2>5, <1>2 DEF Monitor!ChangeRow
  <2>7. QED
    BY <2>2, <2>6 DEF Monitor!Next
<1>6. QED
  BY <1>4, <1>5

LEMMA MonitorRefinement ==
    ASSUME TypeOK, Monitor!IInv, HubNext
    PROVE  [Monitor!Next]_Monitor!vars
<1>1. CASE EndpointStep
  BY <1>1, EndpointStepIsRowChange
<1>2. CASE MonitorStep
  BY <1>2, MonitorStepEffect
<1>3. CASE HubRestart
  BY <1>3 DEF HubRestart, Monitor!Next
<1>4. QED
  BY <1>1, <1>2, <1>3 DEF HubNext

-----------------------------------------------------------------------------
(* The ledger of what clients know.                                         *)

LEMMA EndpointStepKeepsLedger ==
    ASSUME TypeOK, Monitor!IInv, Ledger, EndpointStep, Remember
    PROVE  Ledger'
<1> DEFINE touched == {k \in Users \X Slots : Writing(k[1], k[2])'}
           told == {k \in Users \X Slots : \E r \in Requests : Settles(r, k[1], k[2])}
<1>1. PICK q \in Requests : StepOf(q)
  BY DEF EndpointStep, StepOf
<1>2. mon' = mon /\ seen' = IF Monitor!Polling THEN seen \cup Monitor!AllRows' ELSE seen
  BY DEF EndpointStep, monitorVars
<1>3. /\ settled' = (settled \cup told) \ touched
      /\ exempt' = IF mon' \in {"waiting", "stopped"} THEN {} ELSE exempt \ touched
      /\ alone' \subseteq Requests
      /\ \A r \in alone' :
            /\ pc'[r] # "idle"
            /\ r \in alone \/ pc[r] = "idle"
            /\ \A p \in Requests \ {r} : pc'[p] = "idle" \/ arg'[p].op = "list"
                  \/ <<arg'[p].user, arg'[p].slot>> # <<arg'[r].user, arg'[r].slot>>
  BY <1>2 DEF Remember
<1>4. RowWritten(q) => Writes(q, arg[q].user, arg[q].slot)
  BY WriterArg DEF RowWritten, Writes
<1>5. \A k \in Users \X Slots :
         table'[k[1]][k[2]] = table[k[1]][k[2]] \/ Writes(q, k[1], k[2])
  <2> SUFFICES ASSUME NEW k \in Users \X Slots, RowWritten(q)
               PROVE  table'[k[1]][k[2]] = table[k[1]][k[2]] \/ Writes(q, k[1], k[2])
    BY <1>1, OwnStep
  <2>1. CASE k[1] = arg[q].user /\ k[2] = arg[q].slot
    BY <2>1, <1>4
  <2>2. CASE ~(k[1] = arg[q].user /\ k[2] = arg[q].slot)
    <3>1. arg[q].user \in Users /\ arg[q].slot \in Slots
      BY WriterArg DEF RowWritten
    <3>2. QED
      BY <2>2, <3>1 DEF RowWritten, TypeOK, Lists
  <2>3. QED
    BY <2>1, <2>2
<1>6. SettledRows'
  <2> SUFFICES ASSUME NEW k \in settled'
               PROVE  ~Writing(k[1], k[2])' /\ LeftAlone(table'[k[1]][k[2]])
    BY DEF SettledRows, LeftAlone
  <2>1. k \in Users \X Slots /\ k \notin touched
    BY <1>3 DEF Ledger
  <2>2. CASE k \in settled
    <3>1. ~Writes(q, k[1], k[2]) /\ LeftAlone(table[k[1]][k[2]])
      BY <2>2, <1>1 DEF Ledger, SettledRows, Writing
    <3>2. QED
      BY <2>1, <3>1, <1>5
  <2>3. CASE k \in told
    <3>1. PICK r \in Requests : Settles(r, k[1], k[2])
      BY <2>3
    <3>2. r = q
      BY <3>1, <1>1, OwnStep DEF Settles, Writes
    <3>3. pc[q] = "eventDone" /\ table' = table
      BY <3>1, <3>2, <1>1, OwnStep DEF Settles, Writes
    <3>4. table[k[1]][k[2]] = arg[q].body
      BY <3>1, <3>2, <3>3 DEF Settles, Writes, Ledger, AloneWrites, Tail
    <3>5. QED
      BY <2>1, <3>1, <3>2, <3>3, <3>4 DEF Settles
  <2>4. QED
    BY <2>2, <2>3, <1>3
<1>7. AloneWrites'
  <2> SUFFICES ASSUME NEW r \in alone'
               PROVE  /\ pc'[r] # "idle"
                      /\ arg'[r].op # "list" =>
                            \A p \in Requests \ {r} :
                                ~Writes(p, arg[r].user, arg[r].slot)'
                      /\ pc'[r] \in Tail =>
                            table'[arg'[r].user][arg'[r].slot] = arg'[r].body
    BY DEF AloneWrites, Tail
  <2>1. /\ r \in Requests /\ pc'[r] # "idle"
        /\ \A p \in Requests \ {r} : ~Writes(p, arg[r].user, arg[r].slot)'
    BY <1>3 DEF Writes
  <2>2. ASSUME pc'[r] \in Tail
        PROVE  table'[arg'[r].user][arg'[r].slot] = arg'[r].body
    <3>1. CASE r = q
      <4>1. pc[q] # "idle" /\ arg'[q] = arg[q] /\ q \in alone
        BY <3>1, <2>1, <2>2, <1>1, <1>3, OwnStep
      <4>2. CASE pc[q] \in Tail /\ table' = table
        BY <3>1, <4>1, <4>2 DEF Ledger, AloneWrites, Tail
      <4>3. CASE RowWritten(q)
        <5>1. arg[q].user \in Users /\ arg[q].slot \in Slots
          BY <4>3, WriterArg DEF RowWritten
        <5>2. QED
          BY <3>1, <4>1, <4>3, <5>1 DEF RowWritten, TypeOK, Lists
      <4>4. QED
        BY <3>1, <2>2, <1>1, <4>2, <4>3, OwnStep
    <3>2. CASE r # q
      <4>1. pc'[r] = pc[r] /\ arg'[r] = arg[r]
        BY <3>2, <2>1, <1>1, OwnStep
      <4>2. r \in alone /\ pc[r] \in Tail
        BY <4>1, <2>1, <2>2, <1>3
      <4>3. arg[r].op # "list" /\ arg[r].user \in Users /\ arg[r].slot \in Slots
        BY <4>2, <2>1, WriterArg
      <4>4. ~Writes(q, arg[r].user, arg[r].slot)
        BY <3>2, <4>2, <4>3 DEF Ledger, AloneWrites
      <4>5. table[arg[r].user][arg[r].slot] = arg[r].body
        BY <4>2 DEF Ledger, AloneWrites, Tail
      <4>6. <<arg[r].user, arg[r].slot>> \in Users \X Slots
        BY <4>3
      <4>7. table'[arg[r].user][arg[r].slot] = table[arg[r].user][arg[r].slot]
        BY <4>4, <4>6, <1>5
      <4>8. QED
        BY <4>1, <4>5, <4>7
    <3>3. QED
      BY <3>1, <3>2
  <2>3. QED
    BY <2>1, <2>2
<1>8. ExemptRows'
  <2>1. exempt' \subseteq settled'
    BY <1>3 DEF Ledger, ExemptRows
  <2>2. exempt' # {} => Monitor!Polling'
    BY <1>2, <1>3 DEF Ledger, ExemptRows, Monitor!Polling
  <2>3. ASSUME NEW k \in exempt', NEW d \in seen', k = <<d.user, d.slot>>
        PROVE  LeftAlone(d.body)
    <3>1. k \in exempt
      BY <1>3
    <3>2. CASE d \in seen
      BY <2>3, <3>1, <3>2 DEF Ledger, ExemptRows
    <3>3. CASE d \in Monitor!AllRows'
      <4>1. table'[k[1]][k[2]] = d.body
        BY <2>3, <3>3 DEF Monitor!AllRows
      <4>2. LeftAlone(table'[k[1]][k[2]])
        BY <2>1, <1>6 DEF SettledRows, LeftAlone
      <4>3. QED
        BY <4>1, <4>2
    <3>4. QED
      BY <3>2, <3>3, <1>2
  <2>4. QED
    BY <2>1, <2>2, <2>3 DEF ExemptRows, LeftAlone
<1>9. settled' \subseteq Users \X Slots
  BY <1>3 DEF Ledger
<1>10. QED
  BY <1>3, <1>6, <1>7, <1>8, <1>9 DEF Ledger

(* A step of the monitor that begins a poll has seen the table and nothing   *)
(* else; no other step adds to what has been seen.                          *)
LEMMA MonitorSees ==
    ASSUME MonitorStep
    PROVE  /\ mon = "waiting" /\ mon' = "reading" => seen' = Monitor!AllRows
           /\ mon' \notin {"waiting", "stopped"} /\ ~(mon = "waiting" /\ mon' = "reading")
                => seen' = seen
<1>1. CASE Monitor!Clock \/ Monitor!Signal
  BY <1>1 DEF Monitor!Clock, Monitor!Signal
<1>2. CASE Monitor!Tick \/ Monitor!Stop
  BY <1>2 DEF Monitor!Tick, Monitor!Stop
<1>3. CASE \E u \in Users : ReadPage(u)
  BY <1>3 DEF ReadPage, Monitor!ReadPage
<1>4. CASE Monitor!ReadFails \/ (retries > 0 /\ Monitor!Panic) \/ Monitor!PollEnds
  BY <1>4 DEF Monitor!ReadFails, Monitor!Panic, Monitor!Restart, Monitor!PollEnds
<1>5. CASE \E d \in Monitor!Rows : Monitor!PassOver(d) \/ Monitor!AutoDestroyDeployment(d)
  BY <1>5 DEF Monitor!PassOver, Monitor!AutoDestroyDeployment
<1>6. CASE Monitor!Deliver \/ Monitor!CallFails \/ Monitor!ServerAnswers
  BY <1>6 DEF Monitor!Deliver, Monitor!CallFails, Monitor!ServerAnswers, Monitor!NextRow
<1>7. QED
  BY <1>1, <1>2, <1>3, <1>4, <1>5, <1>6 DEF MonitorStep

LEMMA MonitorStepKeepsLedger ==
    ASSUME TypeOK, Monitor!IInv, Ledger, MonitorStep, Remember
    PROVE  Ledger'
<1>1. table' = table /\ pc' = pc /\ arg' = arg
  BY MonitorStepEffect DEF vars
<1>2. /\ settled' \subseteq settled
      /\ \A k \in settled' : ~Writing(k[1], k[2])
      /\ alone' \subseteq alone
  BY <1>1 DEF Remember, Settles, Writing, Writes, Ledger, AloneWrites, SettledRows
<1>3. SettledRows'
  BY <1>1, <1>2 DEF SettledRows, Ledger, Writing, Writes, LeftAlone
<1>4. AloneWrites'
  BY <1>1, <1>2 DEF AloneWrites, Ledger, Writes
<1>5. ExemptRows'
  <2>1. CASE mon = "waiting" /\ mon' = "reading"
    <3>1. exempt' = settled' /\ seen' = Monitor!AllRows
      BY <2>1, MonitorSees DEF Remember
    <3>2. ASSUME NEW k \in exempt', NEW d \in seen', k = <<d.user, d.slot>>
          PROVE  LeftAlone(d.body)
      <4>1. table[k[1]][k[2]] = d.body
        BY <3>1, <3>2 DEF Monitor!AllRows
      <4>2. LeftAlone(table[k[1]][k[2]])
        BY <3>1, <1>2 DEF Ledger, SettledRows
      <4>3. QED
        BY <4>1, <4>2
    <3>3. Monitor!Polling'
      BY <2>1 DEF Monitor!Polling
    <3>4. QED
      BY <3>1, <3>2, <3>3 DEF ExemptRows, LeftAlone
  <2>2. CASE mon' \in {"waiting", "stopped"}
    <3>1. exempt' = {}
      BY <2>2 DEF Remember
    <3>2. QED
      BY <3>1 DEF ExemptRows
  <2>3. CASE mon' \notin {"waiting", "stopped"} /\ ~(mon = "waiting" /\ mon' = "reading")
    <3>1. /\ seen' = seen
          /\ exempt' = exempt \ {k \in Users \X Slots : Writing(k[1], k[2])'}
      BY <2>3, MonitorSees DEF Remember
    <3>2. exempt' \subseteq settled'
      BY <3>1 DEF Remember, Ledger, ExemptRows
    <3>3. Monitor!Polling'
      <4>1. [Monitor!Next]_Monitor!vars
        BY MonitorStepEffect
      <4>2. mon' \in {"waiting", "reading", "acting", "calling", "delivered", "stopped"}
        BY <4>1, MonitorInvIsInductive
           DEF Monitor!IInv, Monitor!RecentInv, Monitor!TypeOK
      <4>3. QED
        BY <4>2, <2>3 DEF Monitor!Polling
    <3>4. QED
      BY <3>1, <3>2, <3>3 DEF ExemptRows, Ledger, LeftAlone
  <2>4. QED
    BY <2>1, <2>2, <2>3
<1>6. QED
  BY <1>2, <1>3, <1>4, <1>5 DEF Ledger

LEMMA RestartKeepsLedger ==
    ASSUME Ledger, HubRestart, Remember
    PROVE  Ledger'
<1>1. /\ table' = table /\ mon' = "waiting"
      /\ \A r \in Requests : pc'[r] = "idle" /\ reply'[r].code = "none"
  BY DEF HubRestart, Restart, Monitor!Restart, stores, Code
<1>2. \A u, s : ~Writing(u, s)'
  BY <1>1 DEF Writing, Writes
<1>3. alone' = {} /\ exempt' = {} /\ settled' \subseteq settled
  BY <1>1 DEF Remember, Settles
<1>4. SettledRows'
  BY <1>1, <1>2, <1>3 DEF Ledger, SettledRows, LeftAlone
<1>5. QED
  BY <1>3, <1>4 DEF Ledger, AloneWrites, ExemptRows

LEMMA HubInvIsInductive ==
    /\ HubInit => HubIInv
    /\ HubIInv /\ [HubNext]_hubVars => HubIInv'
<1>1. HubInit => HubIInv
  BY InitTypes, InitStale, MonitorInvIsInductive
     DEF HubInit, HubIInv, IInv, Ledger, SettledRows, AloneWrites, ExemptRows
<1>2. ASSUME HubIInv, HubNext PROVE HubIInv'
  <2>1. IInv'
    BY <1>2, EndpointRefinement, NextTypes, NextStale DEF HubIInv, IInv
  <2>2. Monitor!IInv'
    BY <1>2, MonitorRefinement, MonitorInvIsInductive DEF HubIInv, IInv
  <2>3. Ledger'
    BY <1>2, EndpointStepKeepsLedger, MonitorStepKeepsLedger, RestartKeepsLedger
       DEF HubNext, HubIInv, IInv
  <2>4. QED
    BY <2>1, <2>2, <2>3 DEF HubIInv
<1>3. ASSUME HubIInv, UNCHANGED hubVars PROVE HubIInv'
  <2>1. UNCHANGED vars /\ UNCHANGED Monitor!vars /\ UNCHANGED ghosts
    BY <1>3 DEF hubVars, vars, monitorVars, Monitor!vars
  <2>2. IInv'
    BY <1>3, <2>1, NextTypes, NextStale DEF HubIInv, IInv
  <2>3. Monitor!IInv'
    BY <1>3, <2>1, MonitorInvIsInductive DEF HubIInv
  <2>4. Ledger'
    BY <1>3, <2>1 DEF HubIInv, Ledger, SettledRows, AloneWrites, ExemptRows, ghosts,
       vars, Monitor!vars, Writing, Writes, LeftAlone, Monitor!Polling
  <2>5. QED
    BY <2>2, <2>3, <2>4 DEF HubIInv
<1>4. QED
  BY <1>1, <1>2, <1>3

-----------------------------------------------------------------------------

(* The endpoints are the environment DeploymentMonitor assumes: whatever the *)
(* requests do, the table and the monitor behave as that module says.        *)
THEOREM HubImplementsMonitor == HubSpec => EndpointsAreRowChanges
<1>1. HubInit => Monitor!Init
  BY DEF HubInit
<1>2. HubIInv /\ [HubNext]_hubVars => [Monitor!Next]_Monitor!vars
  <2>1. UNCHANGED hubVars => UNCHANGED Monitor!vars
    BY DEF hubVars, vars, monitorVars, Monitor!vars
  <2>2. QED
    BY <2>1, MonitorRefinement DEF HubIInv, IInv
<1>3. QED
  BY <1>1, <1>2, HubInvIsInductive, PTL DEF HubSpec, EndpointsAreRowChanges, Monitor!Spec

(* What a client was told before a poll began holds for that poll: its        *)
(* deployment is not destroyed by it unless somebody writes it again.        *)
THEOREM SettledAreSafe == HubSpec => []SettledIsNotDestroyed
<1>1. HubIInv => SettledIsNotDestroyed
  <2> SUFFICES ASSUME HubIInv, calling # NoCall,
                      <<calling.user, calling.slot>> \in exempt
               PROVE  FALSE
    BY DEF SettledIsNotDestroyed
  <2>1. calling \in seen /\ Monitor!Due(calling.body) /\ calling.body \in Bodies
    BY DEF HubIInv, Monitor!IInv, Monitor!RecentInv, Monitor!RowsReadOnce,
       Monitor!DestroysWhatThePollSaw, Monitor!TypeOK, Monitor!Rows
  <2>2. LeftAlone(calling.body)
    BY <2>1 DEF HubIInv, Ledger, ExemptRows
  <2>3. QED
    BY <2>1, <2>2, DeploymentsAssumption DEF LeftAlone, Monitor!Due
<1>2. QED
  BY <1>1, HubInvIsInductive, PTL DEF HubSpec
=============================================================================
