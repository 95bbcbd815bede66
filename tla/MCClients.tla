----------------------------- MODULE MCClients -----------------------------
(***************************************************************************)
(* The two sides of the network, each on its own: a tab, whose pages know  *)
(* of the server what Forms and SupportPages say, or the server's support  *)
(* endpoints, whose requests come from any tab.  They share no variable,   *)
(* so nothing is gained by interleaving them.                              *)
(***************************************************************************)
EXTENDS Clients, SupportAccess

CONSTANTS m1, m2, f1, e1, t1, t2, c1, c2, agent, other, r1, r2, r3

VARIABLE side

SidesInit ==
    /\ Init /\ ClientsInit
    /\ \/ side = "server" /\ area = "admin" /\ gate = NoGate
       \/ side = "tab" /\ \A n \in Notification : delivery[n] = "FAILED"

\* The server's requests are alike, so they arrive in one order.  Bound: the third
\* one goes on with a list or appends a row.
Arrivals ==
    /\ pc'[r2] # "idle" => pc[r1] # "idle"
    /\ pc'[r3] # "idle" => pc[r2] # "idle"
    /\ pc'[r3] # "idle" => cursor'[r3] # NoCursor \/ command'[r3].op = "APPEND"

SidesNext ==
    /\ \/ side = "server" /\ Next /\ Arrivals /\ UNCHANGED clientVars
       \/ side = "tab" /\ ClientsNext /\ UNCHANGED vars
    /\ UNCHANGED side

SidesSpec == SidesInit /\ [][SidesNext]_<<side, vars, clientVars>>
-----------------------------------------------------------------------------
MCRoll == <<m1, m2>>
MCKey == {Detail, List} \cup SupportKey

\* Two forms one after the other where a key or the request itself would make the
\* difference, and another client where what it records does.
MCVisits ==
    [a \in Area |-> IF a \in {"repay", "request"} THEN 2 ELSE 1]
MCElsewhere ==
    [a \in Area |-> IF a \in {"repay", "entry", "reverse"} THEN 1 ELSE 0]

MCGateEntry ==
    {[case |-> c1, tenant |-> t1], [case |-> c2, tenant |-> t1], [case |-> c2, tenant |-> t2]}

\* The server: a failed message of each of two groups, one file that may be
\* registered, and a log that already holds two attempts to view it.
View(no) ==
    [tenant |-> t1, no |-> no, action |-> "EVIDENCE_VIEW", case |-> c1, subject |-> f1,
     request |-> NoCommand]

MCNotificationGroup == <<t1, t2>>
MCFirstLog == <<View(1), View(2)>>
MCFirstSequence == [t \in {t1, t2} |-> IF t = t1 THEN 2 ELSE 0]

Call(op, t, case, by, subject) ==
    [op |-> op, access |-> [tenant |-> t, case |-> case, by |-> by], subject |-> subject]

MCInstruction ==
    {Call("APPEND", t1, Blank, other, NoSubject),
     Call("AUDIT_LOG_READ", t1, c1, agent, NoSubject),
     Call("SMS_FAILURES_READ", NoTenant, c1, agent, NoSubject),
     Call("EVIDENCE_ACCESS_HISTORY_READ", t1, c1, agent, f1),
     Call("EVIDENCE_VIEW", t1, c1, agent, f1),
     Call("TRACE_READ", t1, c1, agent, NoSubject),
     Call("REGISTER", t1, Blank, agent, f1),
     Call("TRACE_READ", t1, Blank, agent, NoSubject),
     Call("NOTIFICATION_RETRY", t1, c1, agent, 2),
     Call("SUPPORT_ACCESS", t1, c1, other, NoSubject)}
=============================================================================
