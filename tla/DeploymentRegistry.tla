------------------------ MODULE DeploymentRegistry ------------------------
(***************************************************************************)
(* What the deployment endpoints promise, without Redis and without the    *)
(* calls a request is made of.  A request changes the one row it names, at *)
(* most once, between being asked and being answered; a write is answered  *)
(* with success only after its change, and an event that is left of it     *)
(* says what the answer says; a list has the rows the registry has held    *)
(* for that user as a whole, now or earlier, though the lab of a row may   *)
(* be shown with another row; the operation log only holds rows that       *)
(* existed.  How old an answered list may be is not promised.              *)
(***************************************************************************)
CONSTANTS Users, Slots, Bodies, Requests, Absent, None

VARIABLES
    rows,     \* the rows of every user
    past,     \* the states each user's rows have been in
    call,     \* what a request asks and how far it is
    result,   \* how a request's last call ended
    noted,    \* what the event its last call left says, if there is one
    log       \* the operation log

regVars == <<rows, past, call, result, noted, log>>

NoResult == [code |-> "none", list |-> None]

\* What a list of the rows l may look like.
Listings(l) ==
    {m \in [Slots -> Bodies \cup {Absent}] : \A s \in Slots :
        IF l[s] = Absent THEN m[s] = Absent
        ELSE \E t \in Slots : l[t] # Absent /\ m[s] = [l[s] EXCEPT !.lab = l[t].lab]}

Call(phase, u, s, b) == [phase |-> phase, user |-> u, slot |-> s, body |-> b]

Init ==
    /\ rows = [u \in Users |-> [s \in Slots |-> Absent]]
    /\ past = [u \in Users |-> {rows[u]}]
    /\ call = [r \in Requests |-> None]
    /\ result = [r \in Requests |-> NoResult]
    /\ noted = [r \in Requests |-> "none"]
    /\ log = {}

AskList(r) ==
    /\ call[r] = None
    /\ \E u \in Users : call' = [call EXCEPT ![r] = Call("asked", u, None, Absent)]
    /\ result' = [result EXCEPT ![r] = NoResult]
    /\ noted' = [noted EXCEPT ![r] = "none"]
    /\ UNCHANGED <<rows, past, log>>

\* Body Absent asks for a deletion.
AskWrite(r) ==
    /\ call[r] = None
    /\ \E u \in Users, s \in Slots, b \in Bodies \cup {Absent} :
        call' = [call EXCEPT ![r] = Call("asked", u, s, b)]
    /\ result' = [result EXCEPT ![r] = NoResult]
    /\ noted' = [noted EXCEPT ![r] = "none"]
    /\ UNCHANGED <<rows, past, log>>

Change(u, s, b) ==
    /\ rows' = [rows EXCEPT ![u][s] = b]
    /\ past' = [past EXCEPT ![u] = @ \cup {rows'[u]}]

Apply(r) ==
    LET c == call[r] IN
    /\ c # None /\ c.phase = "asked" /\ c.slot # None
    /\ c.body = Absent => rows[c.user][c.slot] # Absent
    /\ call' = [call EXCEPT ![r].phase = "applied"]
    /\ Change(c.user, c.slot, c.body)
    /\ UNCHANGED <<result, noted, log>>

\* A write that reports an error may have been applied.
Fail(r) ==
    LET c == call[r] IN
    /\ c # None /\ c.phase = "asked" /\ c.slot # None
    /\ call' = [call EXCEPT ![r].phase = "failed"]
    /\ \/ Change(c.user, c.slot, c.body)
       \/ UNCHANGED <<rows, past>>
    /\ UNCHANGED <<result, noted, log>>

Answer(r, code, l) ==
    /\ call' = [call EXCEPT ![r] = None]
    /\ result' = [result EXCEPT ![r] = [code |-> code, list |-> l]]
    /\ UNCHANGED <<rows, past, log>>

\* The event may be lost.
EndWrite(r, code) ==
    /\ Answer(r, code, None)
    /\ noted' \in {noted, [noted EXCEPT ![r] = code]}

AnswerWrite(r) ==
    /\ call[r] # None
    /\ \/ call[r].phase = "applied" /\ EndWrite(r, "ok")
       \/ call[r].phase = "failed" /\ EndWrite(r, "error")

AnswerList(r) ==
    /\ call[r] # None /\ call[r].slot = None
    /\ \/ \E l \in past[call[r].user] : \E m \in Listings(l) : Answer(r, "ok", m)
       \/ Answer(r, "error", None)
    /\ UNCHANGED noted

\* Refused for its form, without touching the registry.
Decline(r) ==
    /\ call[r] = None
    /\ \E code \in {"ok", "error"} : Answer(r, code, None)
    /\ noted' = [noted EXCEPT ![r] = "none"]

LogOperation ==
    /\ UNCHANGED <<rows, past, call, result, noted>>
    /\ \E u \in Users, s \in Slots, b \in Bodies :
        /\ log' = log \cup {[user |-> u, slot |-> s, body |-> b]}
        /\ \E l \in past[u] : l[s] = b

\* The process ends: nobody is answered, the rows stay.
Forget ==
    /\ call' = [r \in Requests |-> None]
    /\ result' = [r \in Requests |-> NoResult]
    /\ noted' = [r \in Requests |-> "none"]
    /\ UNCHANGED <<rows, past, log>>

Next ==
    \/ \E r \in Requests :
        \/ AskList(r) \/ AskWrite(r)
        \/ Apply(r) \/ Fail(r) \/ AnswerWrite(r) \/ AnswerList(r) \/ Decline(r)
    \/ LogOperation
    \/ Forget

Spec == Init /\ [][Next]_regVars
=============================================================================
