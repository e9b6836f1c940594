---------------------- MODULE DeploymentMonitorProofs ----------------------
(***************************************************************************)
(* Proofs about DeploymentMonitor, for any table, clock and retry budget.  *)
(***************************************************************************)
EXTENDS DeploymentMonitor, TLAPS

LEMMA Bounds == 0 \in 0..MaxTime /\ MaxRetries \in 0..MaxRetries
  BY MonitorAssumption

LEMMA InitRecent == Init => RecentInv
<1> SUFFICES ASSUME Init PROVE RecentInv
  OBVIOUS
<1>1. TypeOK
  BY Bounds DEF Init, TypeOK
<1>2. PollIsRecent /\ DestroysWhatThePollSaw
  BY DEF Init, PollIsRecent, Polling, DestroysWhatThePollSaw
<1>3. QED
  BY <1>1, <1>2 DEF RecentInv

(* Rows are rows of the table's users, slots and bodies.                    *)
LEMMA AllRowsAreRows == AllRows \subseteq Rows /\ \A u : RowsOf(u) \subseteq AllRows
  BY DEF AllRows, RowsOf

LEMMA EnvironmentStep ==
    ASSUME RecentInv,
           \/ \E u \in Users, s \in Slots, b \in Bodies \cup {Absent} : ChangeRow(u, s, b)
           \/ Clock \/ Signal \/ Restart
    PROVE  RecentInv'
<1> USE DEF RecentInv
<1>1. ASSUME NEW u \in Users, NEW s \in Slots, NEW b \in Bodies \cup {Absent},
             ChangeRow(u, s, b)
      PROVE  RecentInv'
  <2>1. AllRows' \subseteq Rows
    BY DEF AllRows, Rows
  <2>2. table' \in [Users -> [Slots -> Bodies \cup {Absent}]]
    BY <1>1 DEF ChangeRow, TypeOK
  <2>3. TypeOK'
    BY <1>1, <2>1, <2>2 DEF ChangeRow, TypeOK, Rows
  <2>4. seen \subseteq seen' /\ (Polling => AllRows' \subseteq seen')
    BY <1>1, <2>1 DEF ChangeRow, Polling
  <2>5. PollIsRecent'
    BY <1>1, <2>4 DEF ChangeRow, PollIsRecent, Polling
  <2>6. DestroysWhatThePollSaw'
    BY <1>1, <2>4 DEF ChangeRow, DestroysWhatThePollSaw, Due
  <2>7. QED
    BY <2>3, <2>5, <2>6
<1>2. CASE Clock
  <2>1. TypeOK'
    BY <1>2, MonitorAssumption DEF Clock, TypeOK
  <2>2. PollIsRecent'
    BY <1>2 DEF Clock, PollIsRecent, Polling, AllRows
  <2>3. DestroysWhatThePollSaw'
    <3> SUFFICES ASSUME mon \in {"calling", "delivered"}
                 PROVE  calling \in seen /\ Due(calling.body)'
      BY <1>2 DEF Clock, DestroysWhatThePollSaw
    <3>1. calling \in seen /\ Due(calling.body)
      BY DEF DestroysWhatThePollSaw
    <3>2. calling.body \in Bodies /\ calling.body.deadline \in Nat
      BY <3>1, MonitorAssumption DEF TypeOK, Rows
    <3>3. calling.body.deadline < now => calling.body.deadline < now'
      BY <1>2, <3>2 DEF Clock, TypeOK
    <3>4. QED
      BY <1>2, <3>1, <3>3 DEF Clock, Due
  <2>4. QED
    BY <2>1, <2>2, <2>3
<1>3. CASE Signal
  BY <1>3 DEF Signal, TypeOK, PollIsRecent, Polling, AllRows, DestroysWhatThePollSaw, Due
<1>4. CASE Restart
  <2>1. TypeOK'
    BY <1>4, Bounds DEF Restart, Rest, TypeOK
  <2>2. PollIsRecent' /\ DestroysWhatThePollSaw'
    BY <1>4 DEF Restart, Rest, PollIsRecent, Polling, DestroysWhatThePollSaw
  <2>3. QED
    BY <2>1, <2>2
<1>5. QED
  BY <1>1, <1>2, <1>3, <1>4

LEMMA PollStep ==
    ASSUME RecentInv,
           \/ Tick \/ Stop \/ (\E u \in Users : ReadPage(u)) \/ ReadFails \/ Panic
           \/ PollEnds
    PROVE  RecentInv'
<1> USE DEF RecentInv
<1>1. CASE Tick
  BY <1>1, AllRowsAreRows
     DEF Tick, TypeOK, PollIsRecent, Polling, AllRows, DestroysWhatThePollSaw
<1>2. CASE Stop
  BY <1>2 DEF Stop, TypeOK, PollIsRecent, Polling, DestroysWhatThePollSaw
<1>3. ASSUME NEW u \in Users, ReadPage(u)
      PROVE  RecentInv'
  <2>1. RowsOf(u) \subseteq AllRows
    BY AllRowsAreRows
  <2>2. TypeOK'
    BY <1>3, <2>1, AllRowsAreRows DEF ReadPage, TypeOK
  <2>3. PollIsRecent'
    BY <1>3, <2>1 DEF ReadPage, PollIsRecent, Polling, AllRows
  <2>4. DestroysWhatThePollSaw'
    BY <1>3 DEF ReadPage, DestroysWhatThePollSaw
  <2>5. QED
    BY <2>2, <2>3, <2>4
<1>4. CASE ReadFails
  BY <1>4 DEF ReadFails, Rest, TypeOK, PollIsRecent, Polling, DestroysWhatThePollSaw
<1>5. CASE Panic
  <2>1. retries > 0 => retries - 1 \in 0..MaxRetries
    BY MonitorAssumption DEF TypeOK
  <2>2. retries' \in 0..MaxRetries
    BY <1>5, <2>1, Bounds DEF Panic, Restart
  <2>3. cancelled' \in BOOLEAN /\ mon' = "waiting" /\ Rest /\ UNCHANGED <<table, now>>
    BY <1>5 DEF Panic, Restart, TypeOK
  <2>4. QED
    BY <2>2, <2>3 DEF Rest, TypeOK, PollIsRecent, Polling, DestroysWhatThePollSaw
<1>6. CASE PollEnds
  BY <1>6 DEF PollEnds, Rest, TypeOK, PollIsRecent, Polling, DestroysWhatThePollSaw
<1>7. QED
  BY <1>1, <1>2, <1>3, <1>4, <1>5, <1>6

LEMMA RowStep ==
    ASSUME RecentInv,
           \/ \E d \in Rows : PassOver(d) \/ AutoDestroyDeployment(d)
           \/ Deliver \/ CallFails \/ ServerAnswers
    PROVE  RecentInv'
<1> USE DEF RecentInv
<1>1. ASSUME NEW d \in Rows, PassOver(d)
      PROVE  RecentInv'
  BY <1>1 DEF PassOver, TypeOK, PollIsRecent, Polling, AllRows, DestroysWhatThePollSaw
<1>2. ASSUME NEW d \in Rows, AutoDestroyDeployment(d)
      PROVE  RecentInv'
  BY <1>2 DEF AutoDestroyDeployment, TypeOK, PollIsRecent, Polling, AllRows,
     DestroysWhatThePollSaw, Due
<1>3. CASE Deliver
  BY <1>3 DEF Deliver, TypeOK, PollIsRecent, Polling, AllRows, DestroysWhatThePollSaw, Due
<1>4. CASE CallFails \/ ServerAnswers
  BY <1>4 DEF CallFails, ServerAnswers, NextRow, TypeOK, PollIsRecent, Polling, AllRows,
     DestroysWhatThePollSaw
<1>5. QED
  BY <1>1, <1>2, <1>3, <1>4

LEMMA NextRecent == RecentInv /\ [Next]_vars => RecentInv'
<1> SUFFICES ASSUME RecentInv, [Next]_vars PROVE RecentInv'
  OBVIOUS
<1>1. CASE UNCHANGED vars
  BY <1>1 DEF vars, RecentInv, TypeOK, PollIsRecent, Polling, AllRows, DestroysWhatThePollSaw, Due
<1>2. QED
  BY <1>1, EnvironmentStep, PollStep, RowStep DEF Next

(* At most one row of a key is read in a poll, and the row being posted has *)
(* been taken out of the batch.                                             *)
LEMMA InitOnce == Init => RowsReadOnce /\ OnePostPerPoll
  BY DEF Init, RowsReadOnce, OnePostPerPoll

LEMMA PageOnce ==
    ASSUME IInv, NEW u \in Users, ReadPage(u)
    PROVE  RowsReadOnce' /\ OnePostPerPoll'
<1> USE DEF IInv, RecentInv
<1>1. \A d \in RowsOf(u) : d \in Rows /\ d.user = u /\ table[u][d.slot] = d.body
  BY DEF RowsOf
<1>2. \A d, e \in RowsOf(u) : d.slot = e.slot => d = e
  BY <1>1 DEF Rows
<1>3. \A d \in batch : d.user # u
  BY DEF ReadPage, RowsReadOnce
<1>4. \A d, e \in batch' : d.user = e.user /\ d.slot = e.slot => d = e
  <2> SUFFICES ASSUME NEW d \in batch', NEW e \in batch', d.user = e.user, d.slot = e.slot
               PROVE  d = e
    OBVIOUS
  <2>1. d \in batch \cup RowsOf(u) /\ e \in batch \cup RowsOf(u)
    BY DEF ReadPage
  <2>2. CASE d \in batch /\ e \in batch
    BY <2>2 DEF RowsReadOnce
  <2>3. CASE d \in RowsOf(u) /\ e \in RowsOf(u)
    BY <2>3, <1>2
  <2>4. QED
    BY <2>1, <2>2, <2>3, <1>1, <1>3
<1>5. \A d \in batch' : d.user \notin unread'
  BY <1>1 DEF ReadPage, RowsReadOnce
<1>6. calling = NoCall
  BY DEF ReadPage, RowsReadOnce
<1>7. QED
  BY <1>4, <1>5, <1>6 DEF ReadPage, RowsReadOnce, OnePostPerPoll

LEMMA NextOnce == IInv /\ [Next]_vars => RowsReadOnce' /\ OnePostPerPoll'
<1> SUFFICES ASSUME IInv, [Next]_vars PROVE RowsReadOnce' /\ OnePostPerPoll'
  OBVIOUS
<1> USE DEF IInv, RecentInv
<1>1. ASSUME UNCHANGED <<mon, unread, batch, calling>>
      PROVE  RowsReadOnce' /\ OnePostPerPoll'
  BY <1>1 DEF RowsReadOnce, OnePostPerPoll
<1>2. ASSUME Rest, mon' \in {"waiting", "stopped"}
      PROVE  RowsReadOnce' /\ OnePostPerPoll'
  BY <1>2 DEF Rest, RowsReadOnce, OnePostPerPoll
<1>3. CASE \/ \E u \in Users, s \in Slots, b \in Bodies \cup {Absent} : ChangeRow(u, s, b)
           \/ Clock \/ Signal \/ UNCHANGED vars
  BY <1>3, <1>1 DEF ChangeRow, Clock, Signal, vars
<1>4. CASE Restart \/ ReadFails \/ Panic \/ PollEnds
  BY <1>4, <1>2 DEF Restart, ReadFails, Panic, PollEnds
<1>5. CASE Tick
  <2>1. batch = {} /\ calling = NoCall
    BY <1>5 DEF Tick, PollIsRecent, Polling, RowsReadOnce
  <2>2. QED
    BY <1>5, <2>1 DEF Tick, RowsReadOnce, OnePostPerPoll
<1>6. CASE Stop
  BY <1>6 DEF Stop, RowsReadOnce, OnePostPerPoll
<1>7. CASE \E u \in Users : ReadPage(u)
  BY <1>7, PageOnce
<1>8. ASSUME NEW d \in Rows, PassOver(d)
      PROVE  RowsReadOnce' /\ OnePostPerPoll'
  BY <1>8 DEF PassOver, RowsReadOnce, OnePostPerPoll
<1>9. ASSUME NEW d \in Rows, AutoDestroyDeployment(d)
      PROVE  RowsReadOnce' /\ OnePostPerPoll'
  <2>1. d \in batch /\ batch' = batch \ {d} /\ calling' = d /\ mon' = "calling"
    BY <1>9 DEF AutoDestroyDeployment
  <2>2. calling' # NoCall
    BY <2>1, MonitorAssumption
  <2>3. OnePostPerPoll'
    BY <2>1 DEF RowsReadOnce, OnePostPerPoll
  <2>4. QED
    BY <1>9, <2>1, <2>2, <2>3 DEF AutoDestroyDeployment, RowsReadOnce
<1>10. CASE Deliver \/ CallFails \/ ServerAnswers
  BY <1>10 DEF Deliver, CallFails, ServerAnswers, NextRow, RowsReadOnce, OnePostPerPoll
<1>11. QED
  BY <1>3, <1>4, <1>5, <1>6, <1>7, <1>8, <1>9, <1>10 DEF Next

LEMMA InductiveIInv == (Init => IInv) /\ (IInv /\ [Next]_vars => IInv')
  BY InitRecent, NextRecent, InitOnce, NextOnce DEF IInv

(* Every variable keeps its type.                                           *)
THEOREM MonitorTypeCorrect == Spec => []TypeOK
<1>1. IInv => TypeOK
  BY DEF IInv, RecentInv
<1>2. QED
  BY InductiveIInv, <1>1, PTL DEF Spec

(* A destroy request is only made for a deployment that the table has held  *)
(* since the poll began and that is due by its own fields.                  *)
THEOREM MonitorDestroysRecentRows == Spec => []DestroysWhatThePollSaw
<1>1. IInv => DestroysWhatThePollSaw
  BY DEF IInv, RecentInv
<1>2. QED
  BY InductiveIInv, <1>1, PTL DEF Spec

(* A poll asks at most once for the destruction of a user's workspace,      *)
(* whatever happens to its row meanwhile.                                   *)
THEOREM MonitorPostsOnce == Spec => []OnePostPerPoll
<1>1. IInv => OnePostPerPoll
  BY DEF IInv
<1>2. QED
  BY InductiveIInv, <1>1, PTL DEF Spec
=============================================================================
