---------------------------- MODULE SupportProofs ----------------------------
(***************************************************************************)
(* Theorems about SupportAccess and the audit log below it, for every set  *)
(* of tenants, files, notifications and requests: numbers, access rows,    *)
(* and walks over pages of any size; and about the tab at the other end    *)
(* (Clients), for every roll, amount and bound.                            *)
(***************************************************************************)
EXTENDS SupportAccess, Clients, FiniteSetTheorems, TLAPS

USE SupportAccessAssumption

-----------------------------------------------------------------------------
Retrying == {"permission", "resetting", "drawingRetry", "insertingRetry", "sending"}
Unlogged == {"idle", "guard", "registering", "drawing", "inserting", "refused"}

Action ==
    {"AUDIT_LOG_READ", "TRACE_READ", "SUPPORT_ACCESS", "SMS_FAILURES_READ",
     "EVIDENCE_ACCESS_HISTORY_READ", "EVIDENCE_VIEW", "NOTIFICATION_RETRY",
     "NOTIFICATION_RETRY_REQUESTED", "APPEND", "REGISTER"}

\* The types that numbers and rows rely on, and what each step says of its command.
Typed ==
    /\ sequence \in AuditSequence
    /\ log \in Seq(AuditLogRow)
    /\ pc \in [Request -> {"idle"} \cup Step \cup Finished]
    /\ command \in [Request -> Command \cup {NoCommand}]
    /\ drawn \in [Request -> Nat]
    /\ \A r \in Request :
          /\ pc[r] # "idle" => command[r] \in Command
          /\ pc[r] \in Retrying => command[r].op = "NOTIFICATION_RETRY"
          /\ pc[r] = "registering" => command[r].op = "REGISTER"

\* r holds a number of tenant t that is not in the log yet.
Holds(r, t) ==
    \/ pc[r] = "inserting" /\ t = command[r].access.tenant
    \/ pc[r] = "insertingRetry" /\ t = NotificationGroup[command[r].subject]

Numbered(t) ==
    /\ \A i, j \in RowsOf(t) : log[i].no = log[j].no => i = j
    /\ \A i \in RowsOf(t) : log[i].no \in 1..sequence[t]
    /\ \A r \in Request : Holds(r, t) =>
          /\ drawn[r] \in 1..sequence[t]
          /\ \A i \in RowsOf(t) : log[i].no # drawn[r]
    /\ \A r, q \in Request : Holds(r, t) /\ Holds(q, t) /\ drawn[r] = drawn[q] => r = q
    /\ \A n \in 1..sequence[t] :
          \/ \E i \in RowsOf(t) : log[i].no = n
          \/ \E r \in Request : /\ drawn[r] = n
                                /\ Holds(r, t) \/ (pc[r] = "crashed" /\ t \in LogsOf(command[r]))

NumbersInv == \A t \in Tenant : Numbered(t)

AccessRows(r) == {i \in DOMAIN log : log[i].request = r /\ log[i].action = command[r].op}

RetryRows(r) ==
    {j \in DOMAIN log : log[j].request = r /\ log[j].action = "NOTIFICATION_RETRY_REQUESTED"}

\* i is the access row of r.
IsAccessRow(r, i) ==
    /\ log[i].tenant = command[r].access.tenant
    /\ log[i].case = command[r].access.case /\ log[i].subject = command[r].subject

Accessed(r) ==
    /\ pc[r] \in {"idle", "guard", "registering", "drawing", "inserting"} =>
          \A i \in DOMAIN log : log[i].request # r
    /\ pc[r] # "idle" /\ command[r] \in SupportCommand =>
          /\ pc[r] \notin {"registering"} \cup Unlogged \cup {"crashed"} =>
                \E i \in AccessRows(r) : IsAccessRow(r, i)
          /\ command[r].access.case = Blank =>
                /\ pc[r] \in {"guard", "refused", "crashed"}
                /\ \A i \in DOMAIN log : log[i].request # r
          /\ \A j \in RetryRows(r) : \E i \in AccessRows(r) : i < j

AccessInv == \A r \in Request : Accessed(r)

-----------------------------------------------------------------------------
LEMMA CommandTypes ==
    ASSUME NEW c \in Command
    PROVE  /\ c.op \in {"AUDIT_LOG_READ", "TRACE_READ", "SUPPORT_ACCESS", "SMS_FAILURES_READ",
                        "EVIDENCE_ACCESS_HISTORY_READ", "EVIDENCE_VIEW", "NOTIFICATION_RETRY",
                        "APPEND", "REGISTER"}
           /\ c.access.tenant \in Tenant \cup {NoTenant}
           /\ c.access.case \in Case \cup {Blank}
           /\ c.subject \in Subject \cup {NoSubject}
           /\ c.op = "NOTIFICATION_RETRY" => c.subject \in Notification
           /\ c \in SupportCommand <=> c.op \notin {"APPEND", "REGISTER"}
BY DEF Command, SupportCommand, AppendCommand, RegisterEvidenceFileDto, SupportAccessDto,
       AnyTenantDto, Subject

\* A row that is stored comes last and leaves the others.
LEMMA StoredLast ==
    ASSUME log \in Seq(AuditLogRow), NEW row \in AuditLogRow, StoreRow(row)
    PROVE  /\ log' \in Seq(AuditLogRow)
           /\ DOMAIN log' = DOMAIN log \cup {Len(log) + 1}
           /\ Len(log) + 1 \notin DOMAIN log
           /\ \A i \in DOMAIN log : i < Len(log) + 1 /\ log'[i] = log[i]
           /\ log'[Len(log) + 1] = row
           /\ sequence' = sequence
BY DEF StoreRow

LEMMA RowType ==
    ASSUME Typed, NEW r \in Request, pc[r] # "idle", NEW t \in Tenant \cup {NoTenant},
           NEW action \in Action, NEW case \in Case \cup {Blank}
    PROVE  Row(r, t, action, case) \in AuditLogRow
BY CommandTypes DEF Row, Typed, AuditLogRow, Action

\* A request of the retry works for the group of its notification.
LEMMA RetryGroup ==
    ASSUME Typed, NEW r \in Request, pc[r] \in Retrying
    PROVE  NotificationGroup[command[r].subject] \in Tenant
BY CommandTypes DEF Typed, Retrying

-----------------------------------------------------------------------------
(* The kinds of steps, as far as the log sees them.                        *)

Issues(r) ==
    /\ pc[r] = "idle" /\ command'[r] \in Command
    /\ \A q \in Request : q # r => pc'[q] = pc[q] /\ command'[q] = command[q]
    /\ pc' \in [Request -> {"idle"} \cup Step \cup Finished]
    /\ command' \in [Request -> Command \cup {NoCommand}]
    /\ pc'[r] = FirstStep(command'[r])
    /\ UNCHANGED <<sequence, log, drawn>>

Moves(r) ==
    /\ pc[r] \in Step
    /\ \A q \in Request : q # r => pc'[q] = pc[q]
    /\ pc' \in [Request -> {"idle"} \cup Step \cup Finished]
    /\ UNCHANGED <<sequence, log, drawn, command>>
    /\ \/ /\ pc[r] = "guard"
          /\ \/ pc'[r] = "refused"
             \/ pc'[r] = "registering" /\ command[r].op = "REGISTER"
             \/ pc'[r] = Admitted(command[r]) /\ command[r].op # "REGISTER"
       \/ pc[r] = "registering" /\ pc'[r] = "done"
       \/ pc[r] = "reading" /\ pc'[r] \in {"done", "refused"}
       \/ pc[r] = "reading" /\ pc'[r] = "resetting" /\ command[r].op = "NOTIFICATION_RETRY"
       \/ pc[r] = "permission" /\ pc'[r] \in {"reading", "refused"}
       \/ pc[r] = "resetting" /\ pc'[r] = "drawingRetry"
       \/ pc[r] = "sending" /\ pc'[r] = "done"
       \/ pc'[r] = "crashed"

DrawsFor(r, t) ==
    /\ DrawNumber(t)
    /\ drawn' = [drawn EXCEPT ![r] = NextSequence(t)]
    /\ UNCHANGED command
    /\ \/ /\ pc[r] = "drawing" /\ pc' = [pc EXCEPT ![r] = "inserting"]
          /\ t = command[r].access.tenant
       \/ /\ pc[r] = "drawingRetry" /\ pc' = [pc EXCEPT ![r] = "insertingRetry"]
          /\ t = NotificationGroup[command[r].subject]

Stores(r, t, action, case) ==
    /\ StoreRow(Row(r, t, action, case))
    /\ UNCHANGED <<drawn, command>>
    /\ \/ /\ pc[r] = "inserting" /\ pc' = [pc EXCEPT ![r] = AfterRow(command[r])]
          /\ t = command[r].access.tenant /\ action = command[r].op
          /\ case = command[r].access.case
       \/ /\ pc[r] = "insertingRetry" /\ pc' = [pc EXCEPT ![r] = "sending"]
          /\ t = NotificationGroup[command[r].subject]
          /\ action = "NOTIFICATION_RETRY_REQUESTED" /\ case = Blank

LEMMA Kinds ==
    ASSUME Typed, Next
    PROVE  \E r \in Request :
              \/ Issues(r) \/ Moves(r)
              \/ \E t \in Tenant \cup {NoTenant} : DrawsFor(r, t)
              \/ \E t \in Tenant \cup {NoTenant}, action \in Action, case \in Case \cup {Blank} :
                    Stores(r, t, action, case)
<1> USE DEF Goto, auditLogVars
<1>1. PICK r \in Request :
         \/ Arrive(r) \/ ArriveForNextPage(r) \/ Guard(r) \/ Draw(r) \/ Insert(r) \/ Register(r)
         \/ ReadFile(r) \/ ReadTrace(r) \/ ReadPage(r)
         \/ CheckResend(r) \/ FindFailed(r) \/ Reset(r) \/ DrawForRetry(r)
         \/ InsertForRetry(r) \/ SendAgain(r) \/ Crash(r)
  BY DEF Next
<1>2. pc[r] # "idle" => command[r] \in Command
  BY DEF Typed
<1>3. ASSUME NEW c \in Command, Issue(r, c), UNCHANGED <<sequence, log, drawn>> PROVE Issues(r)
  <2>1. FirstStep(c) \in {"guard", "refused", "drawing"}
    BY DEF FirstStep, Admitted
  <2>2. QED
    BY <1>3, <2>1 DEF Issue, Issues, Typed, Step, Finished
<1>4. CASE Arrive(r)
  BY <1>3, <1>4 DEF Arrive
<1>5. CASE ArriveForNextPage(r)
  BY <1>3, <1>5 DEF ArriveForNextPage, Typed
<1>6. CASE Guard(r)
  <2>1. Admitted(command[r]) \in {"refused", "drawing"}
    BY DEF Admitted
  <2>2. /\ pc[r] = "guard" /\ UNCHANGED <<sequence, log, drawn, command>>
        /\ \/ pc' = [pc EXCEPT ![r] = "refused"]
           \/ pc' = [pc EXCEPT ![r] = "registering"] /\ command[r].op = "REGISTER"
           \/ pc' = [pc EXCEPT ![r] = Admitted(command[r])] /\ command[r].op # "REGISTER"
    BY <1>6 DEF Guard
  <2>3. Moves(r)
    BY <2>1, <2>2 DEF Moves, Typed, Step, Finished
  <2>4. QED
    BY <2>3
<1>7. CASE Register(r) \/ ReadTrace(r) \/ ReadPage(r) \/ Reset(r) \/ SendAgain(r)
  <2>1. Moves(r)
    BY <1>7 DEF Register, ReadTrace, ReadPage, Reset, SendAgain, Moves, Typed, Step, Finished
  <2>2. QED
    BY <2>1
<1>8. CASE ReadFile(r)
  <2>1. /\ pc[r] = "reading" /\ UNCHANGED <<sequence, log, drawn, command>>
        /\ pc' = [pc EXCEPT ![r] = "done"] \/ pc' = [pc EXCEPT ![r] = "refused"]
    BY <1>8 DEF ReadFile
  <2>2. Moves(r)
    BY <2>1 DEF Moves, Typed, Step, Finished
  <2>3. QED
    BY <2>2
<1>9. CASE CheckResend(r)
  <2>1. /\ pc[r] = "permission" /\ UNCHANGED <<sequence, log, drawn, command>>
        /\ pc' = [pc EXCEPT ![r] = "reading"] \/ pc' = [pc EXCEPT ![r] = "refused"]
    BY <1>9 DEF CheckResend
  <2>2. Moves(r)
    BY <2>1 DEF Moves, Typed, Step, Finished
  <2>3. QED
    BY <2>2
<1>10. CASE FindFailed(r)
  <2>1. /\ pc[r] = "reading" /\ UNCHANGED <<sequence, log, drawn, command>>
        /\ command[r].op = "NOTIFICATION_RETRY"
        /\ pc' = [pc EXCEPT ![r] = "resetting"] \/ pc' = [pc EXCEPT ![r] = "refused"]
    BY <1>10 DEF FindFailed
  <2>2. Moves(r)
    BY <2>1 DEF Moves, Typed, Step, Finished
  <2>3. QED
    BY <2>2
<1>11. CASE Crash(r)
  <2>1. Moves(r)
    BY <1>11 DEF Crash, Moves, Typed, Finished
  <2>2. QED
    BY <2>1
<1>12. CASE Draw(r)
  <2>1. DrawsFor(r, command[r].access.tenant) /\ command[r] \in Command
    BY <1>2, <1>12 DEF Draw, DrawsFor
  <2>2. QED
    BY <2>1, CommandTypes
<1>13. CASE DrawForRetry(r)
  <2>1. DrawsFor(r, NotificationGroup[command[r].subject])
    BY <1>13 DEF DrawForRetry, DrawsFor
  <2>2. QED
    BY <1>13, <2>1, RetryGroup DEF DrawForRetry, Retrying
<1>14. CASE Insert(r)
  <2>1. /\ Stores(r, command[r].access.tenant, command[r].op, command[r].access.case)
        /\ command[r] \in Command
    BY <1>2, <1>14 DEF Insert, Stores
  <2>2. /\ command[r].access.tenant \in Tenant \cup {NoTenant} /\ command[r].op \in Action
        /\ command[r].access.case \in Case \cup {Blank}
    BY <2>1, CommandTypes DEF Action
  <2>3. QED
    BY <2>1, <2>2, Zenon
<1>15. CASE InsertForRetry(r)
  <2>1. Stores(r, NotificationGroup[command[r].subject], "NOTIFICATION_RETRY_REQUESTED", Blank)
    BY <1>15 DEF InsertForRetry, Stores
  <2>2. NotificationGroup[command[r].subject] \in Tenant \cup {NoTenant}
    BY <1>15, RetryGroup DEF InsertForRetry, Retrying
  <2>3. "NOTIFICATION_RETRY_REQUESTED" \in Action /\ Blank \in Case \cup {Blank}
    BY DEF Action
  <2>4. QED
    BY <2>1, <2>2, <2>3, Zenon
<1>16. QED
  BY <1>1, <1>4, <1>5, <1>6, <1>7, <1>8, <1>9, <1>10, <1>11, <1>12, <1>13, <1>14, <1>15

LEMMA TypedStep ==
    ASSUME Typed, Next
    PROVE  Typed'
<1>1. PICK r \in Request :
         \/ Issues(r) \/ Moves(r)
         \/ \E t \in Tenant \cup {NoTenant} : DrawsFor(r, t)
         \/ \E t \in Tenant \cup {NoTenant}, action \in Action, case \in Case \cup {Blank} :
               Stores(r, t, action, case)
  BY Kinds
<1>2. CASE Issues(r)
  <2>1. pc'[r] \in {"guard", "refused", "drawing"}
    BY <1>2 DEF Issues, FirstStep, Admitted
  <2>2. QED
    BY <1>2, <2>1 DEF Issues, Typed, Retrying
<1>3. CASE Moves(r)
  <2>1. /\ pc'[r] # "idle" /\ command[r] \in Command
        /\ pc'[r] \in Retrying =>
              pc[r] \in Retrying \/ command[r].op = "NOTIFICATION_RETRY"
        /\ pc'[r] = "registering" => command[r].op = "REGISTER"
    BY <1>3 DEF Moves, Admitted, Typed, Retrying, Step
  <2>2. QED
    BY <1>3, <2>1 DEF Moves, Typed
<1>4. ASSUME NEW t \in Tenant \cup {NoTenant}, DrawsFor(r, t) PROVE Typed'
  <2>1. /\ sequence' \in AuditSequence /\ log' = log /\ NextSequence(t) \in Nat
    BY <1>4 DEF DrawsFor, DrawNumber, NextSequence, Typed, AuditSequence
  <2>2. drawn' \in [Request -> Nat] /\ UNCHANGED command
    BY <1>4, <2>1 DEF DrawsFor, Typed
  <2>3. \/ pc' = [pc EXCEPT ![r] = "inserting"] /\ pc[r] = "drawing"
        \/ pc' = [pc EXCEPT ![r] = "insertingRetry"] /\ pc[r] = "drawingRetry"
    BY <1>4 DEF DrawsFor
  <2>4. /\ pc' \in [Request -> {"idle"} \cup Step \cup Finished]
        /\ \A q \in Request : q # r => pc'[q] = pc[q]
        /\ pc'[r] \in Retrying <=> pc[r] \in Retrying
        /\ pc[r] # "idle" /\ pc'[r] # "registering"
    BY <2>3 DEF Typed, Step, Retrying
  <2>5. QED
    BY <2>1, <2>2, <2>4 DEF Typed
<1>5. ASSUME NEW t \in Tenant \cup {NoTenant}, NEW action \in Action, NEW case \in Case \cup {Blank},
             Stores(r, t, action, case)
      PROVE  Typed'
  <2>1. pc[r] # "idle" /\ command' = command /\ drawn' = drawn
    BY <1>5 DEF Stores
  <2>2. log' \in Seq(AuditLogRow) /\ sequence' = sequence
    BY <1>5, <2>1, RowType, StoredLast DEF Stores, Typed
  <2>3. /\ AfterRow(command[r]) \in {"done", "permission", "reading"}
        /\ AfterRow(command[r]) = "permission" => command[r].op = "NOTIFICATION_RETRY"
    BY DEF AfterRow
  <2>4. \/ pc' = [pc EXCEPT ![r] = AfterRow(command[r])]
        \/ pc' = [pc EXCEPT ![r] = "sending"] /\ pc[r] \in Retrying
    BY <1>5 DEF Stores, Retrying
  <2>5. /\ pc' \in [Request -> {"idle"} \cup Step \cup Finished]
        /\ \A q \in Request : q # r => pc'[q] = pc[q]
        /\ pc'[r] \in Retrying => command[r].op = "NOTIFICATION_RETRY"
        /\ pc'[r] # "registering"
    BY <2>3, <2>4 DEF Typed, Step, Finished, Retrying
  <2>6. QED
    BY <2>1, <2>2, <2>5 DEF Typed
<1>6. QED
  BY <1>1, <1>2, <1>3, <1>4, <1>5

-----------------------------------------------------------------------------
(* The numbers of a tenant.                                                *)

LEMMA NumbersStep ==
    ASSUME Typed, NumbersInv, Next, NEW t \in Tenant
    PROVE  Numbered(t)'
<1>1. PICK r \in Request :
         \/ Issues(r) \/ Moves(r)
         \/ \E u \in Tenant \cup {NoTenant} : DrawsFor(r, u)
         \/ \E u \in Tenant \cup {NoTenant}, action \in Action, case \in Case \cup {Blank} :
               Stores(r, u, action, case)
  BY Kinds
<1>2. Numbered(t)
  BY DEF NumbersInv
<1>3. CASE Issues(r)
  <2>1. /\ ~Holds(r, t) /\ ~Holds(r, t)' /\ pc[r] # "crashed"
        /\ \A q \in Request : q # r =>
              /\ Holds(q, t)' <=> Holds(q, t)
              /\ pc'[q] = pc[q] /\ command'[q] = command[q]
    BY <1>3 DEF Issues, Holds, FirstStep, Admitted
  <2>2. UNCHANGED <<sequence, log, drawn>>
    BY <1>3 DEF Issues
  <2>3. RowsOf(t)' = RowsOf(t)
    BY <2>2 DEF RowsOf
  <2>4. QED
    BY <1>2, <2>1, <2>2, <2>3 DEF Numbered
<1>4. CASE Moves(r)
  <2>1. /\ ~Holds(r, t)'
        /\ Holds(r, t) => pc'[r] = "crashed"
        /\ pc[r] # "crashed"
        /\ \A q \in Request : q # r => (Holds(q, t)' <=> Holds(q, t)) /\ pc'[q] = pc[q]
    BY <1>4 DEF Moves, Holds, Admitted, Step
  <2>2. UNCHANGED <<sequence, log, drawn, command>>
    BY <1>4 DEF Moves
  <2>3. RowsOf(t)' = RowsOf(t)
    BY <2>2 DEF RowsOf
  <2>4. Holds(r, t) => t \in LogsOf(command[r])
    BY DEF Holds, LogsOf, Typed, Retrying
  <2>5. QED
    BY <1>2, <2>1, <2>2, <2>3, <2>4 DEF Numbered
<1>5. ASSUME NEW u \in Tenant \cup {NoTenant}, DrawsFor(r, u) PROVE Numbered(t)'
  <2>1. /\ UNCHANGED <<log, command>> /\ RowsOf(t)' = RowsOf(t)
        /\ \A q \in Request : q # r => /\ pc'[q] = pc[q] /\ drawn'[q] = drawn[q]
        /\ ~Holds(r, t) /\ pc[r] # "crashed" /\ pc'[r] \in {"inserting", "insertingRetry"}
    BY <1>5 DEF DrawsFor, DrawNumber, RowsOf, Holds, Typed
  <2>2. \A q \in Request : q # r => (Holds(q, t)' <=> Holds(q, t))
    BY <2>1 DEF Holds
  <2>3. Holds(r, t)' <=> t = u
    BY <1>5, <2>1 DEF DrawsFor, Holds, Typed
  <2>4. CASE u = t
    <3>1. /\ sequence'[t] = sequence[t] + 1 /\ drawn'[r] = sequence[t] + 1
          /\ sequence[t] \in Nat
      BY <1>5, <2>4 DEF DrawsFor, DrawNumber, NextSequence, Typed, AuditSequence
    <3>2. QED
      BY <1>2, <2>1, <2>2, <2>3, <2>4, <3>1, SMTT(30) DEF Numbered
  <2>5. CASE u # t
    <3>1. sequence'[t] = sequence[t]
      BY <1>5, <2>5 DEF DrawsFor, DrawNumber, Typed, AuditSequence
    <3>2. QED
      BY <1>2, <2>1, <2>2, <2>3, <2>5, <3>1 DEF Numbered
  <2>6. QED
    BY <2>4, <2>5
<1>6. ASSUME NEW u \in Tenant \cup {NoTenant}, NEW action \in Action, NEW case \in Case \cup {Blank},
             Stores(r, u, action, case)
      PROVE  Numbered(t)'
  <2>1. PICK row : row = Row(r, u, action, case)
    OBVIOUS
  <2>2. row \in AuditLogRow /\ row.tenant = u /\ row.no = drawn[r] /\ StoreRow(row)
    BY <1>6, <2>1, RowType DEF Stores, Row
  <2>3. PICK last : last = Len(log) + 1
    OBVIOUS
  <2>4. /\ DOMAIN log' = DOMAIN log \cup {last} /\ last \notin DOMAIN log
        /\ \A i \in DOMAIN log : log'[i] = log[i]
        /\ log'[last] = row /\ sequence' = sequence
    BY <2>2, <2>3, StoredLast DEF Typed
  <2>5. /\ UNCHANGED <<drawn, command>> /\ ~Holds(r, t)' /\ pc[r] # "crashed"
        /\ Holds(r, t) <=> t = u
        /\ \A q \in Request : q # r => (Holds(q, t)' <=> Holds(q, t)) /\ pc'[q] = pc[q]
    BY <1>6 DEF Stores, Holds, Typed, AfterRow
  <2>6. CASE u = t
    <3>1. RowsOf(t)' = RowsOf(t) \cup {last} /\ last \notin RowsOf(t)
      BY <2>2, <2>4, <2>6 DEF RowsOf
    <3>2. /\ \A i \in RowsOf(t) : log'[i].no = log[i].no
          /\ log'[last].no = drawn[r]
      BY <2>2, <2>4 DEF RowsOf
    <3>3. QED
      BY <1>2, <2>4, <2>5, <2>6, <3>1, <3>2 DEF Numbered
  <2>7. CASE u # t
    <3>1. RowsOf(t)' = RowsOf(t)
      BY <2>2, <2>4, <2>7 DEF RowsOf
    <3>2. \A i \in RowsOf(t) : log'[i].no = log[i].no
      BY <2>4 DEF RowsOf
    <3>3. QED
      BY <1>2, <2>4, <2>5, <2>7, <3>1, <3>2 DEF Numbered
  <2>8. QED
    BY <2>6, <2>7
<1>7. QED
  BY <1>1, <1>3, <1>4, <1>5, <1>6

-----------------------------------------------------------------------------
(* The access rows of a request.                                           *)

LEMMA AccessStep ==
    ASSUME Typed, AccessInv, Next, NEW q \in Request
    PROVE  Accessed(q)'
<1>1. PICK r \in Request :
         \/ Issues(r) \/ Moves(r)
         \/ \E u \in Tenant \cup {NoTenant} : DrawsFor(r, u)
         \/ \E u \in Tenant \cup {NoTenant}, action \in Action, case \in Case \cup {Blank} :
               Stores(r, u, action, case)
  BY Kinds
<1>2. Accessed(q) /\ pc[q] \in {"idle"} \cup Step \cup Finished
  BY DEF AccessInv, Typed
<1>3. ASSUME log' = log, pc'[q] = pc[q], command'[q] = command[q] PROVE Accessed(q)'
  BY <1>2, <1>3 DEF Accessed, AccessRows, RetryRows, IsAccessRow
<1>4. CASE Issues(r)
  <2>1. CASE q = r
    <3>1. /\ pc'[q] = FirstStep(command'[q]) /\ pc[q] = "idle" /\ log' = log
          /\ command'[q] \in Command
      BY <1>4, <2>1 DEF Issues
    <3>2. \A i \in DOMAIN log : log[i].request # q
      BY <1>2, <3>1 DEF Accessed
    <3>3. /\ pc'[q] \in {"guard", "refused", "drawing"}
          /\ command'[q] \in SupportCommand /\ command'[q].access.case = Blank =>
                pc'[q] \in {"guard", "refused"}
      BY <3>1 DEF FirstStep, Admitted
    <3>4. QED
      BY <3>1, <3>2, <3>3 DEF Accessed, AccessRows, RetryRows, Unlogged
  <2>2. QED
    BY <1>3, <1>4, <2>1 DEF Issues
<1>5. CASE Moves(r)
  <2>1. CASE q = r
    <3>1. UNCHANGED <<log, command>> /\ pc[q] \in Step
      BY <1>5, <2>1 DEF Moves
    <3>2. /\ AccessRows(q)' = AccessRows(q) /\ RetryRows(q)' = RetryRows(q)
          /\ \A i : IsAccessRow(q, i)' <=> IsAccessRow(q, i)
      BY <3>1 DEF AccessRows, RetryRows, IsAccessRow
    <3>3. command[q] \in Command
      BY <3>1 DEF Typed, Step
    <3>4. /\ pc'[q] \in {"drawing", "registering"} => pc[q] = "guard"
          /\ pc'[q] \notin {"idle", "guard", "inserting"}
          /\ pc'[q] = "registering" => command[q] \notin SupportCommand
          /\ pc[q] = "registering" => command[q] \notin SupportCommand
          /\ pc'[q] \notin {"registering"} \cup Unlogged \cup {"crashed"} =>
                pc[q] \notin {"guard", "drawing", "inserting"}
          /\ command[q] \in SupportCommand /\ command[q].access.case = Blank /\ pc[q] = "guard" =>
                pc'[q] \in {"refused", "crashed"}
      BY <1>5, <2>1, <3>3, CommandTypes DEF Moves, Admitted, Typed, Unlogged
    <3>5. command[q] \in SupportCommand /\ command[q].access.case = Blank =>
             pc[q] = "guard" /\ \A i \in DOMAIN log : log[i].request # q
      BY <1>2, <3>1 DEF Accessed, Step
    <3>6. command[q] \in SupportCommand => \A j \in RetryRows(q) : \E i \in AccessRows(q) : i < j
      BY <1>2, <3>1 DEF Accessed, Step
    <3>7. command[q] \in SupportCommand /\ pc'[q] \notin {"registering"} \cup Unlogged \cup {"crashed"} =>
             \E i \in AccessRows(q) : IsAccessRow(q, i)
      BY <1>2, <3>1, <3>4 DEF Accessed, Step, Unlogged
    <3>8. pc'[q] \in {"idle", "guard", "registering", "drawing", "inserting"} =>
             \A i \in DOMAIN log : log[i].request # q
      BY <1>2, <3>4 DEF Accessed
    <3>9. QED
      BY <3>1, <3>2, <3>4, <3>5, <3>6, <3>7, <3>8 DEF Accessed
  <2>2. QED
    BY <1>3, <1>5, <2>1 DEF Moves
<1>6. ASSUME NEW u \in Tenant \cup {NoTenant}, DrawsFor(r, u) PROVE Accessed(q)'
  <2>1. CASE q = r
    <3>1. /\ UNCHANGED <<log, command>>
          /\ \/ pc[q] = "drawing" /\ pc'[q] = "inserting"
             \/ pc[q] = "drawingRetry" /\ pc'[q] = "insertingRetry"
      BY <1>6, <2>1 DEF DrawsFor, DrawNumber, Typed
    <3>2. QED
      BY <1>2, <3>1 DEF Accessed, AccessRows, RetryRows, IsAccessRow, Unlogged
  <2>2. CASE q # r
    <3>1. log' = log /\ pc'[q] = pc[q] /\ command'[q] = command[q]
      BY <1>6, <2>2 DEF DrawsFor, DrawNumber, Typed
    <3>2. QED
      BY <1>3, <3>1
  <2>3. QED
    BY <2>1, <2>2
<1>7. ASSUME NEW u \in Tenant \cup {NoTenant}, NEW action \in Action, NEW case \in Case \cup {Blank},
             Stores(r, u, action, case)
      PROVE  Accessed(q)'
  <2>1. PICK row : row = Row(r, u, action, case)
    OBVIOUS
  <2>2. /\ row \in AuditLogRow /\ row.tenant = u /\ row.request = r /\ row.action = action
        /\ row.case = case /\ row.subject = command[r].subject /\ StoreRow(row)
    BY <1>7, <2>1, RowType DEF Stores, Row
  <2>3. PICK last : last = Len(log) + 1
    OBVIOUS
  <2>4. /\ DOMAIN log' = DOMAIN log \cup {last} /\ last \notin DOMAIN log
        /\ \A i \in DOMAIN log : i < last /\ log'[i] = log[i]
        /\ log'[last] = row /\ command' = command
    BY <1>7, <2>2, <2>3, StoredLast DEF Typed, Stores
  <2>5. CASE q # r
    <3>1. pc'[q] = pc[q]
      BY <1>7, <2>5 DEF Stores, Typed
    <3>2. /\ \A i \in DOMAIN log' : log'[i].request = q => i \in DOMAIN log
          /\ AccessRows(q)' = AccessRows(q) /\ RetryRows(q)' = RetryRows(q)
      BY <2>2, <2>4, <2>5 DEF AccessRows, RetryRows
    <3>3. \A i \in AccessRows(q) : IsAccessRow(q, i)' <=> IsAccessRow(q, i)
      BY <2>4 DEF AccessRows, IsAccessRow
    <3>4. QED
      BY <1>2, <2>4, <3>1, <3>2, <3>3 DEF Accessed
  <2>6. CASE q = r /\ pc[r] = "inserting"
    <3>1. /\ u = command[q].access.tenant /\ action = command[q].op
          /\ case = command[q].access.case /\ pc'[q] = AfterRow(command[q])
      BY <1>7, <2>6 DEF Stores, Typed
    <3>2. \A i \in DOMAIN log : log[i].request # q
      BY <1>2, <2>6 DEF Accessed
    <3>3. last \in AccessRows(q)' /\ IsAccessRow(q, last)'
      BY <2>2, <2>4, <2>6, <3>1 DEF AccessRows, IsAccessRow
    <3>4. command[q] \in Command
      BY <2>6 DEF Typed
    <3>5. RetryRows(q)' = {}
      BY <2>2, <2>4, <3>1, <3>2, <3>4, CommandTypes DEF RetryRows
    <3>6. ~(command[q] \in SupportCommand /\ command[q].access.case = Blank)
      BY <1>2, <2>6 DEF Accessed
    <3>7. pc'[q] \in {"done", "permission", "reading"}
      BY <3>1 DEF AfterRow
    <3>8. QED
      BY <2>4, <3>3, <3>5, <3>6, <3>7 DEF Accessed
  <2>7. CASE q = r /\ pc[r] = "insertingRetry"
    <3>1. pc'[q] = "sending" /\ action = "NOTIFICATION_RETRY_REQUESTED"
      BY <1>7, <2>7 DEF Stores, Typed
    <3>2. /\ command[q] \in SupportCommand /\ command[q] \in Command
          /\ command[q].op = "NOTIFICATION_RETRY"
      BY <2>7, CommandTypes DEF Typed, Retrying
    <3>3. /\ \E i \in AccessRows(q) : IsAccessRow(q, i)
          /\ command[q].access.case # Blank
          /\ \A j \in RetryRows(q) : \E i \in AccessRows(q) : i < j
      BY <1>2, <2>7, <3>2 DEF Accessed, Unlogged
    <3>4. AccessRows(q)' = AccessRows(q) /\ RetryRows(q)' = RetryRows(q) \cup {last}
      BY <2>2, <2>4, <2>7, <3>1, <3>2 DEF AccessRows, RetryRows
    <3>5. \A i \in AccessRows(q) : (IsAccessRow(q, i)' <=> IsAccessRow(q, i)) /\ i < last
      BY <2>4 DEF AccessRows, IsAccessRow
    <3>6. QED
      BY <2>4, <3>1, <3>3, <3>4, <3>5 DEF Accessed
  <2>8. QED
    BY <1>7, <2>5, <2>6, <2>7 DEF Stores
<1>8. QED
  BY <1>1, <1>4, <1>5, <1>6, <1>7

-----------------------------------------------------------------------------
SupportInv == Typed /\ NumbersInv /\ AccessInv

LEMMA SupportInit == Init => SupportInv
<1> SUFFICES ASSUME Init PROVE SupportInv
  OBVIOUS
<1>1. Typed
  BY DEF Init, AuditLogInit, Typed, Retrying
<1>2. ASSUME NEW t \in Tenant PROVE Numbered(t)
  <2>1. /\ log = FirstLog /\ sequence = FirstSequence /\ \A r \in Request : pc[r] = "idle"
    BY DEF Init, AuditLogInit
  <2>2. PICK rows : rows = {i \in DOMAIN FirstLog : FirstLog[i].tenant = t}
    OBVIOUS
  <2>3. /\ \A i, j \in rows : FirstLog[i].no = FirstLog[j].no => i = j
        /\ {FirstLog[i].no : i \in rows} = 1..FirstSequence[t]
    BY <2>2, FirstLogNumbered
  <2>4. RowsOf(t) = rows
    BY <2>1, <2>2 DEF RowsOf
  <2>5. \A r \in Request : ~Holds(r, t)
    BY <2>1 DEF Holds
  <2>6. /\ \A i \in rows : log[i].no \in 1..sequence[t]
        /\ \A n \in 1..sequence[t] : \E i \in rows : log[i].no = n
    BY <2>1, <2>3
  <2>7. QED
    BY <2>1, <2>3, <2>4, <2>5, <2>6 DEF Numbered
<1>3. ASSUME NEW r \in Request PROVE Accessed(r)
  BY FirstLogNumbered DEF Init, AuditLogInit, Accessed
<1>4. QED
  BY <1>1, <1>2, <1>3 DEF SupportInv, NumbersInv, AccessInv

LEMMA SupportStep == SupportInv /\ [Next]_vars => SupportInv'
<1> SUFFICES ASSUME SupportInv, [Next]_vars PROVE SupportInv'
  OBVIOUS
<1>1. CASE Next
  <2>1. Typed'
    BY <1>1, TypedStep DEF SupportInv
  <2>2. NumbersInv'
    BY <1>1, NumbersStep DEF SupportInv, NumbersInv
  <2>3. AccessInv'
    BY <1>1, AccessStep DEF SupportInv, AccessInv
  <2>4. QED
    BY <2>1, <2>2, <2>3 DEF SupportInv
<1>2. CASE UNCHANGED vars
  <2> USE <1>2 DEF vars, auditLogVars, supportVars
  <2>1. Typed'
    BY DEF SupportInv, Typed, Retrying
  <2>2. NumbersInv'
    BY DEF SupportInv, NumbersInv, Numbered, RowsOf, Holds
  <2>3. AccessInv'
    BY DEF SupportInv, AccessInv, Accessed, AccessRows, RetryRows, IsAccessRow
  <2>4. QED
    BY <2>1, <2>2, <2>3 DEF SupportInv
<1>3. QED
  BY <1>1, <1>2

THEOREM Invariance == Spec => []SupportInv
BY SupportInit, SupportStep, PTL DEF Spec

\* However drawing a number and storing its row interleave and die, no two rows
\* of a tenant share a number, and each number drawn is in the log, or on its
\* way there, or was lost with its request (audit-log.service.ts).
THEOREM NumbersAccounted == Spec => []SequenceAccounted
<1>1. SupportInv => SequenceAccounted
  <2> SUFFICES ASSUME SupportInv, NEW t \in Tenant
               PROVE  /\ \A i, j \in RowsOf(t) : log[i].no = log[j].no => i = j
                      /\ \A i \in RowsOf(t) : log[i].no \in 1..sequence[t]
                      /\ \A n \in 1..sequence[t] :
                            \/ \E i \in RowsOf(t) : log[i].no = n
                            \/ \E r \in Request :
                                  /\ pc[r] \in {"inserting", "insertingRetry", "crashed"}
                                  /\ drawn[r] = n /\ t \in LogsOf(command[r])
    BY DEF SequenceAccounted
  <2>1. Numbered(t)
    BY DEF SupportInv, NumbersInv
  <2>2. \A r \in Request : Holds(r, t) =>
           t \in LogsOf(command[r]) /\ pc[r] \in {"inserting", "insertingRetry"}
    BY DEF Holds, LogsOf, SupportInv, Typed, Retrying
  <2>3. QED
    BY <2>1, <2>2 DEF Numbered
<1>2. QED
  BY <1>1, Invariance, PTL

\* Nobody gets as far as a tenant's data for a support case without a row in that
\* tenant's log, and a retry's own row comes after it (support.controller.ts).
THEOREM AccessesAreLogged == Spec => []AccessIsLogged
<1>1. SupportInv => AccessIsLogged
  <2> SUFFICES ASSUME SupportInv, NEW r \in Request, pc[r] # "idle", command[r] \in SupportCommand
               PROVE  /\ pc[r] \in {"reading", "permission", "resetting", "drawingRetry",
                                     "insertingRetry", "sending", "done"} =>
                            \E i \in AccessRows(r) : IsAccessRow(r, i)
                      /\ command[r].access.case = Blank => AccessRows(r) = {}
                      /\ \A j \in RetryRows(r) : \E i \in AccessRows(r) : i < j
    BY DEF AccessIsLogged, AccessRows, RetryRows, IsAccessRow
  <2>1. Accessed(r)
    BY DEF SupportInv, AccessInv
  <2>2. QED
    BY <2>1 DEF Accessed, Unlogged, AccessRows
<1>2. QED
  BY <1>1, Invariance, PTL

-----------------------------------------------------------------------------
(* The walks over pages.  What a walk owes is still selected by its list,  *)
(* and is shown already or stands below the cursor.                        *)

Walk(r) == pc[r] # "idle" /\ command[r].op \in Paged

WalkSound(r) ==
    /\ cursor[r] \in Cursor /\ next[r] \in Cursor
    /\ pc[r] = "idle" => cursor[r] = NoCursor /\ due[r] = {}
    /\ next[r] # NoCursor => pc[r] = "done" /\ Walk(r)
    /\ Walk(r) => due[r] \subseteq Matching(command[r])
    /\ Walk(r) /\ pc[r] # "done" /\ cursor[r] # NoCursor =>
          \A x \in due[r] : x \in walked[r] \/ Rank(command[r], x) < cursor[r]
    /\ Walk(r) /\ pc[r] = "done" =>
          \A x \in due[r] : \/ x \in walked[r]
                            \/ next[r] # NoCursor /\ Rank(command[r], x) < next[r]

WalkTypes ==
    /\ delivery \in [Notification -> Status]
    /\ cursor \in [Request -> Cursor] /\ next \in [Request -> Cursor]
    /\ DOMAIN walked = Request /\ DOMAIN due = Request

WalkInv == WalkTypes /\ \A r \in Request : WalkSound(r)

LEMMA LeastNat ==
    ASSUME NEW S, S \subseteq Nat, S # {}
    PROVE  \E x \in S : \A y \in S : x <= y
<1> DEFINE R == OpToRel(<, Nat)
<1>1. IsWellFoundedOn(R, Nat)
  BY NatLessThanWellFounded
<1>2. \A x, y \in Nat : x < y => <<x, y>> \in R
  BY DEF OpToRel
<1> HIDE DEF R
<1>3. PICK x \in S : \A y \in S : ~(<<y, x>> \in R)
  BY <1>1, WFMin
<1>4. \A y \in S : x \in Nat /\ y \in Nat /\ ~(y < x)
  BY <1>2, <1>3
<1>5. \A y \in S : x <= y
  BY <1>4
<1>. QED
  BY <1>3, <1>5

\* Rows of a list that come before x.
Above(c, rows, x) == {y \in rows : Rank(c, y) > Rank(c, x)}

LEMMA AboveCounted ==
    ASSUME NEW c, NEW rows, IsFiniteSet(rows), NEW x
    PROVE  /\ IsFiniteSet(Above(c, rows, x)) /\ Cardinality(Above(c, rows, x)) \in Nat
           /\ \A n \in Int : x \in FirstOf(c, rows, n) <=>
                 x \in rows /\ Cardinality(Above(c, rows, x)) < n
<1>1. Above(c, rows, x) \subseteq rows
  BY DEF Above
<1>2. IsFiniteSet(Above(c, rows, x))
  BY <1>1, FS_Subset
<1>3. Cardinality(Above(c, rows, x)) \in Nat
  BY <1>2, FS_CardinalityType
<1>4. QED
  BY <1>2, <1>3 DEF Above, FirstOf

\* The more there is above a row, the lower it stands.
LEMMA AboveOrdered ==
    ASSUME NEW c, NEW rows, IsFiniteSet(rows), \A x \in rows : Rank(c, x) \in Nat,
           NEW x \in rows, NEW y \in rows
    PROVE  /\ Rank(c, y) <= Rank(c, x) =>
                 Cardinality(Above(c, rows, x)) <= Cardinality(Above(c, rows, y))
           /\ Rank(c, y) > Rank(c, x) =>
                 Cardinality(Above(c, rows, y)) < Cardinality(Above(c, rows, x))
<1>1. IsFiniteSet(Above(c, rows, x)) /\ IsFiniteSet(Above(c, rows, y))
  BY AboveCounted
<1>2. ASSUME Rank(c, y) <= Rank(c, x)
      PROVE  Cardinality(Above(c, rows, x)) <= Cardinality(Above(c, rows, y))
  <2>1. Above(c, rows, x) \subseteq Above(c, rows, y)
    BY <1>2 DEF Above
  <2>2. QED
    BY <1>1, <2>1, FS_Subset
<1>3. ASSUME Rank(c, y) > Rank(c, x)
      PROVE  Cardinality(Above(c, rows, y)) < Cardinality(Above(c, rows, x))
  <2>1. /\ Above(c, rows, y) \subseteq Above(c, rows, x)
        /\ y \in Above(c, rows, x) /\ y \notin Above(c, rows, y)
    BY <1>3 DEF Above
  <2>2. /\ Cardinality(Above(c, rows, y)) <= Cardinality(Above(c, rows, x))
        /\ Cardinality(Above(c, rows, y)) # Cardinality(Above(c, rows, x))
    BY <1>1, <2>1, FS_Subset
  <2>3. /\ Cardinality(Above(c, rows, y)) \in Nat
        /\ Cardinality(Above(c, rows, x)) \in Nat
    BY <1>1, FS_CardinalityType
  <2>4. QED
    BY <2>2, <2>3
<1>4. QED
  BY <1>2, <1>3

\* Among some rows of a list there is one with the fewest above it.
LEMMA FewestAbove ==
    ASSUME NEW c, NEW rows, IsFiniteSet(rows), NEW some, some \subseteq rows, some # {}
    PROVE  \E x \in some : \A y \in some :
              Cardinality(Above(c, rows, x)) <= Cardinality(Above(c, rows, y))
<1> DEFINE counts == {Cardinality(Above(c, rows, x)) : x \in some}
<1>1. counts \subseteq Nat /\ counts # {}
  BY AboveCounted
<1>2. PICK n \in counts : \A m \in counts : n <= m
  BY <1>1, LeastNat
<1>3. QED
  BY <1>2

LEMMA FirstNotEmpty ==
    ASSUME NEW c, NEW rows, IsFiniteSet(rows), rows # {}, \A x \in rows : Rank(c, x) \in Nat,
           NEW n \in Nat \ {0}
    PROVE  FirstOf(c, rows, n) # {}
<1>1. PICK x \in rows : \A y \in rows :
         Cardinality(Above(c, rows, x)) <= Cardinality(Above(c, rows, y))
  BY FewestAbove
<1>2. Above(c, rows, x) = {}
  <2>1. SUFFICES ASSUME NEW y \in rows, Rank(c, y) > Rank(c, x) PROVE FALSE
    BY DEF Above
  <2>2. Cardinality(Above(c, rows, y)) < Cardinality(Above(c, rows, x))
    BY <2>1, AboveOrdered
  <2>3. /\ Cardinality(Above(c, rows, y)) \in Nat
        /\ Cardinality(Above(c, rows, x)) \in Nat
        /\ Cardinality(Above(c, rows, x)) <= Cardinality(Above(c, rows, y))
    BY <1>1, AboveCounted
  <2>4. QED
    BY <2>2, <2>3
<1>3. Cardinality(Above(c, rows, x)) = 0
  BY <1>2, FS_EmptySet
<1>4. 0 < n /\ n \in Int
  OBVIOUS
<1>5. x \in FirstOf(c, rows, n)
  BY <1>3, <1>4, AboveCounted
<1>6. QED
  BY <1>5

LEMMA LastOfIsLast ==
    ASSUME NEW c, NEW rows, rows # {}, \A x \in rows : Rank(c, x) \in Nat
    PROVE  /\ LastOf(c, rows) \in rows
           /\ \A y \in rows : Rank(c, LastOf(c, rows)) <= Rank(c, y)
<1> DEFINE ranks == {Rank(c, x) : x \in rows}
<1>1. ranks \subseteq Nat /\ ranks # {}
  OBVIOUS
<1>2. PICK n \in ranks : \A m \in ranks : n <= m
  BY <1>1, LeastNat
<1>3. \E x \in rows : \A y \in rows : Rank(c, x) <= Rank(c, y)
  BY <1>2
<1>4. QED
  BY <1>3 DEF LastOf

\* A row that is on no page yet stands below the whole page, and was fetched in
\* excess or had another fetched in its place.
LEMMA LeftOver ==
    ASSUME NEW c, NEW rows, IsFiniteSet(rows), \A x \in rows : Rank(c, x) \in Nat,
           NEW fetched, fetched = FirstOf(c, rows, PageLimit + 1),
           NEW x \in rows, x \notin FirstOf(c, fetched, PageLimit)
    PROVE  /\ Cardinality(fetched) > PageLimit
           /\ \A p \in FirstOf(c, fetched, PageLimit) : Rank(c, x) < Rank(c, p)
<1> PICK limit \in Nat \ {0} : limit = PageLimit
  OBVIOUS
<1>1. fetched \subseteq rows /\ IsFiniteSet(fetched)
  <2>1. fetched \subseteq rows
    BY DEF FirstOf
  <2>2. QED
    BY <2>1, FS_Subset
<1>2. Cardinality(fetched) \in Nat
  BY <1>1, FS_CardinalityType
<1>3. CASE x \in fetched
  <2>1. Cardinality(Above(c, fetched, x)) >= limit
    BY <1>1, <1>3, AboveCounted
  <2>2. /\ Above(c, fetched, x) \subseteq fetched /\ x \notin Above(c, fetched, x)
    BY <1>1 DEF Above
  <2>3. /\ Cardinality(Above(c, fetched, x)) <= Cardinality(fetched)
        /\ Cardinality(Above(c, fetched, x)) # Cardinality(fetched)
    BY <1>1, <1>3, <2>2, FS_Subset
  <2>4. Cardinality(fetched) > limit
    BY <1>1, <1>2, <2>1, <2>3, AboveCounted
  <2>5. ASSUME NEW p \in FirstOf(c, fetched, PageLimit) PROVE Rank(c, x) < Rank(c, p)
    <3>1. p \in fetched /\ Cardinality(Above(c, fetched, p)) < limit
      BY <1>1, <2>5, AboveCounted
    <3>2. Rank(c, p) <= Rank(c, x) =>
             Cardinality(Above(c, fetched, x)) <= Cardinality(Above(c, fetched, p))
      BY <1>1, <1>3, <3>1, AboveOrdered
    <3>3. /\ Cardinality(Above(c, fetched, x)) \in Nat
          /\ Cardinality(Above(c, fetched, p)) \in Nat
          /\ Rank(c, x) \in Nat /\ Rank(c, p) \in Nat
      BY <1>1, <3>1, AboveCounted
    <3>4. QED
      BY <2>1, <3>1, <3>2, <3>3
  <2>6. QED
    BY <2>4, <2>5
<1>4. CASE x \notin fetched
  <2>1. PICK z \in rows \ fetched : \A y \in rows \ fetched :
           Cardinality(Above(c, rows, z)) <= Cardinality(Above(c, rows, y))
    BY <1>4, FewestAbove
  <2>2. Above(c, rows, z) \subseteq fetched
    <3>1. SUFFICES ASSUME NEW y \in rows, Rank(c, y) > Rank(c, z), y \notin fetched PROVE FALSE
      BY DEF Above
    <3>2. Cardinality(Above(c, rows, y)) < Cardinality(Above(c, rows, z))
      BY <3>1, AboveOrdered
    <3>3. /\ Cardinality(Above(c, rows, y)) \in Nat
          /\ Cardinality(Above(c, rows, z)) \in Nat
          /\ Cardinality(Above(c, rows, z)) <= Cardinality(Above(c, rows, y))
      BY <2>1, <3>1, AboveCounted
    <3>4. QED
      BY <3>2, <3>3
  <2>3. \A y \in rows \ fetched :
           Cardinality(Above(c, rows, y)) \in Nat /\ Cardinality(Above(c, rows, y)) >= limit + 1
    BY AboveCounted
  <2>4. Cardinality(fetched) > limit
    BY <1>1, <1>2, <2>2, <2>3, FS_Subset
  <2>5. ASSUME NEW p \in FirstOf(c, fetched, PageLimit) PROVE Rank(c, x) < Rank(c, p)
    <3>1. p \in fetched /\ p \in rows
      BY <1>1 DEF FirstOf
    <3>2. /\ Cardinality(Above(c, rows, p)) \in Nat
          /\ Cardinality(Above(c, rows, p)) < limit + 1
      BY <3>1, AboveCounted
    <3>3. Rank(c, p) <= Rank(c, x) =>
             Cardinality(Above(c, rows, x)) <= Cardinality(Above(c, rows, p))
      BY <3>1, AboveOrdered
    <3>4. Rank(c, x) \in Nat /\ Rank(c, p) \in Nat
      BY <3>1
    <3>5. QED
      BY <1>4, <2>3, <3>2, <3>3, <3>4
  <2>6. QED
    BY <2>4, <2>5
<1>5. QED
  BY <1>3, <1>4

LEMMA PageLosesNothing ==
    ASSUME NEW c, NEW rows, IsFiniteSet(rows), \A x \in rows : Rank(c, x) \in Nat,
           NEW fetched, fetched = FirstOf(c, rows, PageLimit + 1)
    PROVE  /\ NextCursor(c, fetched) \in Cursor
           /\ \A x \in rows : x \in FirstOf(c, fetched, PageLimit)
                 \/ /\ NextCursor(c, fetched) # NoCursor
                    /\ Rank(c, x) < NextCursor(c, fetched)
<1> PICK page : page = FirstOf(c, fetched, PageLimit)
  OBVIOUS
<1>1. fetched \subseteq rows /\ page \subseteq fetched
  BY DEF FirstOf
<1>2. IsFiniteSet(fetched)
  BY <1>1, FS_Subset
<1>3. CASE Cardinality(fetched) > PageLimit
  <2>1. fetched # {}
    <3>1. Cardinality({}) = 0 /\ ~(0 > PageLimit)
      BY FS_EmptySet
    <3>2. QED
      BY <1>3, <3>1
  <2>2. page # {}
    BY <1>1, <1>2, <2>1, FirstNotEmpty
  <2>3. LastOf(c, page) \in page
    BY <1>1, <2>2, LastOfIsLast
  <2>4. NextCursor(c, fetched) = Rank(c, LastOf(c, page))
    BY <1>3 DEF NextCursor
  <2>5. NextCursor(c, fetched) \in Nat
    BY <1>1, <2>3, <2>4
  <2>6. \A x \in rows : x \notin page => Rank(c, x) < Rank(c, LastOf(c, page))
    BY <2>3, LeftOver
  <2>7. QED
    BY <2>4, <2>5, <2>6 DEF Cursor, NoCursor
<1>4. CASE ~(Cardinality(fetched) > PageLimit)
  <2>1. \A x \in rows : x \in page
    BY <1>4, LeftOver
  <2>2. NextCursor(c, fetched) = NoCursor
    BY <1>4 DEF NextCursor
  <2>3. QED
    BY <2>1, <2>2 DEF Cursor
<1>5. QED
  BY <1>3, <1>4

LEMMA MatchingTypes ==
    ASSUME Typed, NEW c \in Command, c.op \in Paged
    PROVE  IsFiniteSet(Matching(c)) /\ \A x \in Matching(c) : Rank(c, x) \in Nat
<1>1. PICK n \in Nat : DOMAIN log = 1..n
  BY DEF Typed
<1>2. IsFiniteSet(1..n)
  <2>1. n \in Int /\ 1 \in Int
    OBVIOUS
  <2>2. QED
    BY <2>1, FS_Interval
<1>3. \A i \in DOMAIN log : log[i].no \in Nat
  <2>1. \A i \in DOMAIN log : log[i] \in AuditLogRow
    BY DEF Typed
  <2>2. QED
    BY <2>1 DEF AuditLogRow
<1>4. CASE c.op = "SMS_FAILURES_READ"
  <2>1. Matching(c) \subseteq Notification
    BY <1>4 DEF Matching, Failed
  <2>2. QED
    BY <1>4, <2>1, FS_Subset DEF Rank
<1>5. CASE c.op # "SMS_FAILURES_READ"
  <2>1. Matching(c) \subseteq DOMAIN log
    BY <1>5 DEF Matching, RowsOf, Paged
  <2>2. QED
    BY <1>1, <1>2, <1>3, <1>5, <2>1, FS_Subset DEF Rank
<1>6. QED
  BY <1>4, <1>5

\* What a list selected stays where it is, but for a message that is settled.
LEMMA ListsKept ==
    ASSUME Typed, log' = log \/ (\E row \in AuditLogRow : StoreRow(row)),
           NEW c \in Command, c.op \in Paged, NEW x \in Matching(c),
           c.op = "SMS_FAILURES_READ" => x \in Failed'
    PROVE  x \in Matching(c)' /\ Rank(c, x)' = Rank(c, x)
<1>1. \A i \in DOMAIN log : i \in DOMAIN log' /\ log'[i] = log[i]
  <2>1. CASE log' = log
    BY <2>1
  <2>2. ASSUME NEW row \in AuditLogRow, StoreRow(row)
        PROVE  \A i \in DOMAIN log : i \in DOMAIN log' /\ log'[i] = log[i]
    BY <2>2, StoredLast DEF Typed
  <2>3. QED
    BY <2>1, <2>2
<1>2. CASE c.op = "SMS_FAILURES_READ"
  BY <1>2 DEF Matching, Rank
<1>3. CASE c.op = "AUDIT_LOG_READ"
  BY <1>1, <1>3 DEF Matching, RowsOf, Rank
<1>4. CASE c.op = "EVIDENCE_ACCESS_HISTORY_READ"
  BY <1>1, <1>4 DEF Matching, RowsOf, Rank
<1>5. QED
  BY <1>2, <1>3, <1>4 DEF Paged

\* A step that reads no page and issues no request.
LEMMA WalksGoOn ==
    ASSUME Typed, WalkInv, NEW r \in Request, pc[r] \in Step,
           pc' \in [Request -> {"idle"} \cup Step \cup Finished], pc'[r] # "idle",
           pc'[r] = "done" => command[r].op \notin Paged,
           \A q \in Request \ {r} : pc'[q] = pc[q],
           log' = log \/ (\E row \in AuditLogRow : StoreRow(row)),
           UNCHANGED <<command, cursor, next, walked>>,
           delivery' \in [Notification -> Status], DOMAIN due' = Request,
           \A q \in Request : due'[q] \subseteq due[q],
           \A q \in Request : Walk(q) /\ command[q].op = "SMS_FAILURES_READ" =>
              \A x \in due'[q] : x \in Failed'
    PROVE  WalkInv'
<1>1. WalkTypes'
  BY DEF WalkInv, WalkTypes
<1>2. ASSUME NEW q \in Request PROVE WalkSound(q)'
  <2>1. WalkSound(q)
    BY DEF WalkInv
  <2>2. /\ Walk(q)' <=> Walk(q)
        /\ pc'[q] = "idle" <=> pc[q] = "idle"
        /\ Walk(q) => (pc'[q] = "done" <=> pc[q] = "done")
        /\ q = r => next[q] = NoCursor
    BY <2>1 DEF Walk, WalkSound, Step
  <2>3. PICK c : c = command[q] /\ c = command'[q]
    OBVIOUS
  <2>4. ASSUME Walk(q), NEW x \in due'[q]
        PROVE  x \in due[q] /\ x \in Matching(c)' /\ Rank(c, x)' = Rank(c, x)
    <3>1. c \in Command /\ c.op \in Paged
      BY <2>3, <2>4 DEF Walk, Typed
    <3>2. x \in due[q] /\ x \in Matching(c)
      BY <2>1, <2>3, <2>4 DEF WalkSound
    <3>3. c.op = "SMS_FAILURES_READ" => x \in Failed'
      BY <2>3, <2>4
    <3>4. QED
      BY <3>1, <3>2, <3>3, ListsKept
  <2>5. Walk(q) => due'[q] \subseteq Matching(c)'
    BY <2>4
  <2>6. Walk(q) /\ pc[q] # "done" /\ cursor[q] # NoCursor =>
           \A x \in due'[q] : x \in walked[q] \/ Rank(c, x)' < cursor[q]
    BY <2>1, <2>3, <2>4 DEF WalkSound
  <2>7. Walk(q) /\ pc[q] = "done" =>
           \A x \in due'[q] : \/ x \in walked[q]
                              \/ next[q] # NoCursor /\ Rank(c, x)' < next[q]
    BY <2>1, <2>3, <2>4 DEF WalkSound
  <2>8. next'[q] # NoCursor => pc'[q] = "done" /\ Walk(q)'
    BY <2>1, <2>2 DEF WalkSound
  <2>9. /\ cursor'[q] \in Cursor /\ next'[q] \in Cursor
        /\ pc'[q] = "idle" => cursor'[q] = NoCursor /\ due'[q] = {}
    BY <2>1, <2>2 DEF WalkSound
  <2>10. Matching(command[q])' = Matching(c)'
    BY <2>3
  <2>11. \A x : Rank(command[q], x)' = Rank(c, x)'
    BY <2>3
  <2>12. QED
    BY <2>2, <2>5, <2>6, <2>7, <2>8, <2>9, <2>10, <2>11 DEF WalkSound
<1>3. QED
  BY <1>1, <1>2 DEF WalkInv

\* Where neither the lists nor the request have changed.
LEMMA WalkRests ==
    ASSUME NEW q \in Request, WalkSound(q), log' = log, delivery' = delivery,
           pc'[q] = pc[q], command'[q] = command[q], cursor'[q] = cursor[q],
           next'[q] = next[q], walked'[q] = walked[q], due'[q] = due[q]
    PROVE  WalkSound(q)'
<1>1. PICK c : c = command[q] /\ c = command'[q]
  OBVIOUS
<1>2. Matching(c)' = Matching(c) /\ \A x : Rank(c, x)' = Rank(c, x)
  BY DEF Matching, RowsOf, Failed, Rank
<1>3. /\ Matching(command[q])' = Matching(command[q])
      /\ \A x : Rank(command[q], x)' = Rank(command[q], x)
      /\ Walk(q)' <=> Walk(q)
  BY <1>1, <1>2 DEF Walk
<1>4. QED
  BY <1>3 DEF WalkSound

\* The statements that settle a message, or leave it alone.
LEMMA Settles ==
    ASSUME Typed, WalkInv, NEW n \in Notification, NEW status \in Status, SetStatus(n, status)
    PROVE  /\ delivery' \in [Notification -> Status] /\ DOMAIN due' = Request
           /\ \A q \in Request : due'[q] \subseteq due[q]
           /\ \A q \in Request : Walk(q) /\ command[q].op = "SMS_FAILURES_READ" =>
                 \A x \in due'[q] : x \in Failed'
<1>1. /\ delivery' \in [Notification -> Status] /\ DOMAIN due' = Request
      /\ \A q \in Request : due'[q] \subseteq due[q]
  BY DEF SetStatus, WalkInv, WalkTypes
<1>2. ASSUME NEW q \in Request, Walk(q), command[q].op = "SMS_FAILURES_READ", NEW x \in due'[q]
      PROVE  x \in Failed'
  <2>1. x \in Failed
    BY <1>1, <1>2 DEF WalkInv, WalkSound, Matching
  <2>2. x = n => status \in {"FAILED", "EXHAUSTED"}
    BY <1>2 DEF SetStatus, Walk, Status
  <2>3. x \in Notification /\ delivery' = [delivery EXCEPT ![n] = status]
    BY <2>1 DEF Failed, SetStatus
  <2>4. delivery'[x] = IF x = n THEN status ELSE delivery[x]
    BY <2>3 DEF WalkInv, WalkTypes
  <2>5. QED
    BY <2>1, <2>2, <2>3, <2>4 DEF Failed
<1>3. QED
  BY <1>1, <1>2

LEMMA FailedStay ==
    ASSUME WalkInv, UNCHANGED <<delivery, due>>
    PROVE  /\ delivery' \in [Notification -> Status] /\ DOMAIN due' = Request
           /\ \A q \in Request : due'[q] \subseteq due[q]
           /\ \A q \in Request : Walk(q) /\ command[q].op = "SMS_FAILURES_READ" =>
                 \A x \in due'[q] : x \in Failed'
BY DEF WalkInv, WalkTypes, WalkSound, Matching, Failed

LEMMA WalkStep == Typed /\ Typed' /\ WalkInv /\ Next => WalkInv'
<1> SUFFICES ASSUME Typed, Typed', WalkInv, Next PROVE WalkInv'
  OBVIOUS
<1> USE DEF Goto, auditLogVars, walks
<1>1. PICK r \in Request :
         \/ Arrive(r) \/ ArriveForNextPage(r) \/ Guard(r) \/ Draw(r) \/ Insert(r) \/ Register(r)
         \/ ReadFile(r) \/ ReadTrace(r) \/ ReadPage(r)
         \/ CheckResend(r) \/ FindFailed(r) \/ Reset(r) \/ DrawForRetry(r)
         \/ InsertForRetry(r) \/ SendAgain(r) \/ Crash(r)
  BY DEF Next
<1>2. /\ WalkSound(r) /\ WalkTypes /\ pc \in [Request -> {"idle"} \cup Step \cup Finished]
      /\ pc' \in [Request -> {"idle"} \cup Step \cup Finished]
      /\ command \in [Request -> Command \cup {NoCommand}]
  BY DEF WalkInv, Typed
<1>3. CASE Arrive(r)
  <2>1. PICK c \in Instruction : Issue(r, c)
    BY <1>3 DEF Arrive
  <2>2. /\ pc[r] = "idle" /\ pc' = [pc EXCEPT ![r] = FirstStep(c)]
        /\ command' = [command EXCEPT ![r] = c]
        /\ UNCHANGED <<log, delivery, cursor, next, walked, due>>
    BY <1>3, <2>1 DEF Arrive, Issue
  <2>3. FirstStep(c) \in {"guard", "refused", "drawing"}
    BY DEF FirstStep, Admitted
  <2>4. \A q \in Request \ {r} : WalkSound(q)'
    <3> SUFFICES ASSUME NEW q \in Request \ {r} PROVE WalkSound(q)'
      OBVIOUS
    <3>1. /\ pc'[q] = pc[q] /\ command'[q] = command[q]
      BY <1>2, <2>2
    <3>2. QED
      BY <2>2, <3>1, WalkRests DEF WalkInv
  <2>5. pc'[r] = FirstStep(c)
    BY <1>2, <2>2
  <2>6. WalkSound(r)'
    BY <1>2, <2>2, <2>3, <2>5 DEF WalkSound, Walk
  <2>7. QED
    BY <1>2, <2>2, <2>4, <2>6 DEF WalkInv, WalkTypes
<1>4. CASE ArriveForNextPage(r)
  <2>1. PICK p \in Request :
           /\ pc[p] = "done" /\ next[p] # NoCursor
           /\ Issue(r, command[p])
           /\ cursor' = [cursor EXCEPT ![r] = next[p]]
           /\ walked' = [walked EXCEPT ![r] = walked[p]]
           /\ due' = [due EXCEPT ![r] = due[p]]
           /\ UNCHANGED <<auditLogVars, files, delivery, drawn, next>>
    BY <1>4 DEF ArriveForNextPage
  <2>2. PICK c : c = command[p]
    OBVIOUS
  <2>3. /\ pc[r] = "idle" /\ pc' = [pc EXCEPT ![r] = FirstStep(c)]
        /\ command' = [command EXCEPT ![r] = c]
        /\ UNCHANGED <<log, delivery, next>>
    BY <2>1, <2>2 DEF Issue
  <2>4. FirstStep(c) \in {"guard", "refused", "drawing"}
    BY DEF FirstStep, Admitted
  <2>5. \A q \in Request \ {r} : WalkSound(q)'
    <3> SUFFICES ASSUME NEW q \in Request \ {r} PROVE WalkSound(q)'
      OBVIOUS
    <3>1. /\ pc'[q] = pc[q] /\ command'[q] = command[q] /\ cursor'[q] = cursor[q]
          /\ next'[q] = next[q] /\ walked'[q] = walked[q] /\ due'[q] = due[q]
      BY <1>2, <2>1, <2>3 DEF WalkTypes
    <3>2. QED
      BY <2>3, <3>1, WalkRests DEF WalkInv
  <2>6. /\ pc'[r] = FirstStep(c) /\ command'[r] = c /\ cursor'[r] = next[p]
        /\ walked'[r] = walked[p] /\ due'[r] = due[p] /\ next'[r] = next[r]
    BY <1>2, <2>1, <2>3 DEF WalkTypes
  <2>7. /\ Walk(p) /\ due[p] \subseteq Matching(c) /\ next[p] \in Cursor
        /\ \A x \in due[p] : x \in walked[p] \/ Rank(c, x) < next[p]
    BY <2>1, <2>2 DEF WalkInv, WalkSound
  <2>8. Matching(c)' = Matching(c) /\ \A x : Rank(c, x)' = Rank(c, x)
    BY <2>3 DEF Matching, RowsOf, Failed, Rank
  <2>9. /\ Matching(command[r])' = Matching(c)
        /\ \A x : Rank(command[r], x)' = Rank(c, x)
    BY <2>6, <2>8
  <2>10. next[r] = NoCursor
    BY <1>2, <2>3 DEF WalkSound
  <2>11. WalkSound(r)'
    BY <2>1, <2>4, <2>6, <2>7, <2>9, <2>10 DEF WalkSound, Walk, Cursor
  <2>12. WalkTypes'
    BY <1>2, <2>1, <2>3, <2>7 DEF WalkTypes
  <2>13. QED
    BY <2>5, <2>11, <2>12 DEF WalkInv
<1>5. CASE ReadPage(r)
  <2>1. PICK c : c = command[r]
    OBVIOUS
  <2>2. PICK rows : rows = Below(c, cursor[r])
    OBVIOUS
  <2>3. PICK fetched : fetched = FirstOf(c, rows, PageLimit + 1)
    OBVIOUS
  <2>4. /\ pc[r] = "reading" /\ c.op \in Paged /\ pc' = [pc EXCEPT ![r] = "done"]
        /\ next' = [next EXCEPT ![r] = NextCursor(c, fetched)]
        /\ walked' = [walked EXCEPT ![r] = @ \cup FirstOf(c, fetched, PageLimit)]
        /\ due' = [due EXCEPT ![r] = IF cursor[r] = NoCursor THEN Matching(c) ELSE @]
        /\ UNCHANGED <<log, delivery, command, cursor>>
    BY <1>5, <2>1, <2>2, <2>3 DEF ReadPage, Fetched
  <2>5. \A q \in Request \ {r} : WalkSound(q)'
    <3> SUFFICES ASSUME NEW q \in Request \ {r} PROVE WalkSound(q)'
      OBVIOUS
    <3>1. /\ pc'[q] = pc[q] /\ command'[q] = command[q] /\ cursor'[q] = cursor[q]
          /\ next'[q] = next[q] /\ walked'[q] = walked[q] /\ due'[q] = due[q]
      BY <1>2, <2>4 DEF WalkTypes
    <3>2. QED
      BY <2>4, <3>1, WalkRests DEF WalkInv
  <2>6. /\ pc'[r] = "done" /\ command'[r] = c /\ next'[r] = NextCursor(c, fetched)
        /\ walked'[r] = walked[r] \cup FirstOf(c, fetched, PageLimit)
        /\ due'[r] = IF cursor[r] = NoCursor THEN Matching(c) ELSE due[r]
    BY <1>2, <2>1, <2>4 DEF WalkTypes
  <2>7. c \in Command
    BY <2>1, <2>4 DEF Typed
  <2>8. IsFiniteSet(Matching(c)) /\ \A x \in Matching(c) : Rank(c, x) \in Nat
    BY <2>4, <2>7, MatchingTypes
  <2>9. rows \subseteq Matching(c)
    BY <2>2 DEF Below
  <2>10. IsFiniteSet(rows) /\ \A x \in rows : Rank(c, x) \in Nat
    BY <2>8, <2>9, FS_Subset
  <2>11. /\ NextCursor(c, fetched) \in Cursor
         /\ \A x \in rows : x \in FirstOf(c, fetched, PageLimit)
               \/ /\ NextCursor(c, fetched) # NoCursor
                  /\ Rank(c, x) < NextCursor(c, fetched)
    BY <2>3, <2>10, PageLosesNothing
  <2>12. /\ Walk(r) /\ due'[r] \subseteq Matching(c)
    BY <1>2, <2>1, <2>4, <2>6 DEF Walk, WalkSound
  <2>13. ASSUME NEW x \in due'[r] PROVE x \in walked[r] \/ x \in rows
    BY <1>2, <2>1, <2>2, <2>4, <2>6, <2>12 DEF Below, WalkSound
  <2>14. Matching(c)' = Matching(c) /\ \A x : Rank(c, x)' = Rank(c, x)
    BY <2>4 DEF Matching, RowsOf, Failed, Rank
  <2>15. /\ Matching(command[r])' = Matching(c)
         /\ \A x : Rank(command[r], x)' = Rank(c, x)
    BY <2>6, <2>14
  <2>16. \A x \in due'[r] :
            \/ x \in walked'[r]
            \/ next'[r] # NoCursor /\ Rank(command[r], x)' < next'[r]
    BY <2>6, <2>11, <2>13, <2>15
  <2>17. WalkSound(r)'
    BY <1>2, <2>4, <2>6, <2>11, <2>12, <2>15, <2>16 DEF WalkSound, Walk
  <2>18. WalkTypes'
    BY <1>2, <2>4, <2>11 DEF WalkTypes
  <2>19. QED
    BY <2>5, <2>17, <2>18 DEF WalkInv
<1>6. ASSUME pc[r] \in Step, pc'[r] # "idle", pc'[r] = "done" => command[r].op \notin Paged,
             \A q \in Request \ {r} : pc'[q] = pc[q],
             log' = log \/ (\E row \in AuditLogRow : StoreRow(row)),
             UNCHANGED <<command, cursor, next, walked>>,
             \/ UNCHANGED <<delivery, due>>
             \/ \E n \in Notification, status \in Status : SetStatus(n, status)
      PROVE  WalkInv'
  <2>1. CASE UNCHANGED <<delivery, due>>
    BY <1>2, <1>6, <2>1, FailedStay, WalksGoOn
  <2>2. ASSUME NEW n \in Notification, NEW status \in Status, SetStatus(n, status)
        PROVE  WalkInv'
    BY <1>2, <1>6, <2>2, Settles, WalksGoOn
  <2>3. QED
    BY <1>6, <2>1, <2>2
<1>7. command[r] \in Command \/ pc[r] = "idle"
  BY DEF Typed
<1>8. CASE Guard(r)
  <2>1. /\ pc[r] = "guard" /\ UNCHANGED <<log, delivery, command, cursor, next, walked, due>>
        /\ \E step \in {"refused", "registering", "drawing"} : pc' = [pc EXCEPT ![r] = step]
    BY <1>8 DEF Guard, Admitted
  <2>2. QED
    BY <1>2, <1>6, <2>1 DEF Step
<1>9. CASE Draw(r) \/ DrawForRetry(r)
  <2>1. /\ pc[r] \in {"drawing", "drawingRetry"}
        /\ UNCHANGED <<log, delivery, command, cursor, next, walked, due>>
        /\ \E step \in {"inserting", "insertingRetry"} : pc' = [pc EXCEPT ![r] = step]
    BY <1>9 DEF Draw, DrawForRetry, DrawNumber
  <2>2. QED
    BY <1>2, <1>6, <2>1 DEF Step
<1>10. CASE Insert(r)
  <2>1. /\ pc[r] = "inserting"
        /\ StoreRow(Row(r, command[r].access.tenant, command[r].op, command[r].access.case))
        /\ UNCHANGED <<delivery, command, cursor, next, walked, due>>
        /\ pc' = [pc EXCEPT ![r] = AfterRow(command[r])]
    BY <1>10 DEF Insert
  <2>2. command[r] \in Command
    BY <1>7, <2>1
  <2>3. /\ command[r].access.tenant \in Tenant \cup {NoTenant} /\ command[r].op \in Action
        /\ command[r].access.case \in Case \cup {Blank}
    BY <2>2, CommandTypes DEF Action
  <2>4. Row(r, command[r].access.tenant, command[r].op, command[r].access.case) \in AuditLogRow
    BY <2>1, <2>3, RowType
  <2>5. /\ AfterRow(command[r]) \in {"done", "permission", "reading"}
        /\ AfterRow(command[r]) = "done" => command[r].op \notin Paged
    BY DEF AfterRow, Paged
  <2>6. \E row \in AuditLogRow : StoreRow(row)
    BY <2>1, <2>4, Zenon
  <2>7. /\ pc'[r] = AfterRow(command[r]) /\ \A q \in Request \ {r} : pc'[q] = pc[q]
    BY <1>2, <2>1
  <2>8. pc[r] \in Step
    BY <2>1 DEF Step
  <2>9. QED
    BY <1>6, <2>1, <2>5, <2>6, <2>7, <2>8
<1>11. CASE InsertForRetry(r)
  <2>1. /\ pc[r] = "insertingRetry" /\ pc' = [pc EXCEPT ![r] = "sending"]
        /\ StoreRow(Row(r, NotificationGroup[command[r].subject],
                        "NOTIFICATION_RETRY_REQUESTED", Blank))
        /\ UNCHANGED <<delivery, command, cursor, next, walked, due>>
    BY <1>11 DEF InsertForRetry
  <2>2. NotificationGroup[command[r].subject] \in Tenant
    BY <2>1, RetryGroup DEF Retrying
  <2>3. "NOTIFICATION_RETRY_REQUESTED" \in Action /\ Blank \in Case \cup {Blank}
    BY DEF Action
  <2>4. Row(r, NotificationGroup[command[r].subject],
            "NOTIFICATION_RETRY_REQUESTED", Blank) \in AuditLogRow
    BY <2>1, <2>2, <2>3, RowType
  <2>5. \E row \in AuditLogRow : StoreRow(row)
    BY <2>1, <2>4, Zenon
  <2>6. /\ pc[r] \in Step /\ pc'[r] = "sending"
        /\ \A q \in Request \ {r} : pc'[q] = pc[q]
    BY <1>2, <2>1 DEF Step
  <2>7. QED
    BY <1>6, <2>1, <2>5, <2>6
<1>12. CASE Register(r) \/ ReadFile(r) \/ ReadTrace(r)
  <2>1. /\ pc[r] \in {"registering", "reading"} /\ command[r].op \notin Paged
        /\ UNCHANGED <<log, delivery, command, cursor, next, walked, due>>
        /\ \E step \in {"done", "refused"} : pc' = [pc EXCEPT ![r] = step]
    BY <1>12 DEF Register, ReadFile, ReadTrace, Typed, Paged
  <2>2. QED
    BY <1>2, <1>6, <2>1 DEF Step
<1>13. CASE CheckResend(r) \/ FindFailed(r) \/ Crash(r)
  <2>1. /\ pc[r] \in Step
        /\ UNCHANGED <<log, delivery, command, cursor, next, walked, due>>
        /\ \E step \in {"reading", "resetting", "refused", "crashed"} :
              pc' = [pc EXCEPT ![r] = step]
    BY <1>13 DEF CheckResend, FindFailed, Crash, Step
  <2>2. QED
    BY <1>2, <1>6, <2>1
<1>14. CASE Reset(r) \/ SendAgain(r)
  <2>1. /\ pc[r] \in {"resetting", "sending"}
        /\ UNCHANGED <<log, command, cursor, next, walked>>
        /\ \E step \in {"drawingRetry", "done"} : pc' = [pc EXCEPT ![r] = step]
        /\ \/ UNCHANGED <<delivery, due>>
           \/ \E status \in Status : SetStatus(command[r].subject, status)
    BY <1>14 DEF Reset, SendAgain, Status
  <2>2. command[r].op = "NOTIFICATION_RETRY" /\ command[r] \in Command
    BY <2>1 DEF Typed, Retrying
  <2>3. command[r].subject \in Notification /\ command[r].op \notin Paged
    BY <2>2, CommandTypes DEF Paged
  <2>4. /\ pc[r] \in Step /\ pc'[r] # "idle"
        /\ \A q \in Request \ {r} : pc'[q] = pc[q]
    BY <1>2, <2>1 DEF Step
  <2>5. \/ UNCHANGED <<delivery, due>>
        \/ \E n \in Notification, status \in Status : SetStatus(n, status)
    BY <2>1, <2>3, Zenon
  <2>6. QED
    BY <1>6, <2>1, <2>3, <2>4, <2>5
<1>15. QED
  BY <1>1, <1>3, <1>4, <1>5, <1>8, <1>9, <1>10, <1>11, <1>12, <1>13, <1>14

\* Whoever follows the cursors to the end has seen all that the first page's list
\* selected, however the log grows and the messages are settled in between
\* (listAuditLogFiltered, listSmsFailures, listEvidenceAccessHistory).
THEOREM WalksAreComplete == Spec => []WalksLoseNothing
<1>1. Init => WalkInv
  BY DEF Init, WalkInv, WalkTypes, WalkSound, Walk, Cursor, Status
<1>2. UNCHANGED vars /\ WalkInv => WalkInv'
  <2> SUFFICES ASSUME UNCHANGED vars, WalkInv PROVE WalkInv'
    OBVIOUS
  <2>1. UNCHANGED <<log, delivery, pc, command, cursor, next, walked, due>>
    BY DEF vars, auditLogVars, supportVars
  <2>2. \A q \in Request : WalkSound(q)'
    BY <2>1, WalkRests DEF WalkInv
  <2>3. QED
    BY <2>1, <2>2 DEF WalkInv, WalkTypes
<1>3. SupportInv => Typed
  BY DEF SupportInv
<1>4. WalkInv => WalksLoseNothing
  BY DEF WalkInv, WalkSound, Walk, WalksLoseNothing
<1>5. QED
  BY <1>1, <1>2, <1>3, <1>4, WalkStep, Invariance, PTL DEF Spec

HIDE SupportAccessAssumption

-----------------------------------------------------------------------------
(* About the operators of the pages.                                       *)

LEMMA MaxOfNats ==
    ASSUME NEW n \in Nat, NEW S \in SUBSET (1..n), S # {}
    PROVE  Max(S) \in S /\ \A y \in S : y <= Max(S)
<1> DEFINE U == {u \in Nat : \A y \in S : y <= u}
<1>1. n \in U
  OBVIOUS
<1>2. PICK x \in U : \A u \in U : x <= u
  BY <1>1, LeastNat
<1>3. x \in S
  <2>1. SUFFICES ASSUME x \notin S PROVE FALSE
    OBVIOUS
  <2>2. \A y \in S : y <= x - 1
    BY <1>2, <2>1
  <2>3. PICK y \in S : y \in 1..n
    OBVIOUS
  <2>4. x - 1 \in U
    BY <2>2, <2>3, <1>2
  <2>. QED
    BY <1>2, <2>4
<1>4. \A y \in S : y \in Nat /\ x \in Nat /\ y <= x
  BY <1>2
<1>5. \E m \in S : \A y \in S : m >= y
  BY <1>3, <1>4
<1>6. Max(S) \in S /\ \A y \in S : Max(S) >= y
  BY <1>5 DEF Max
<1>. QED
  BY <1>6

LEMMA LastRepaymentIsLast ==
    ASSUME NEW rows, NEW n \in Nat, DOMAIN rows = 1..n
    PROVE  /\ LastRepayment(rows) \in 0..n
           /\ \A i \in 1..n : rows[i].op = "repayment" => i <= LastRepayment(rows)
<1> DEFINE own == {i \in DOMAIN rows : rows[i].op = "repayment"}
<1>1. CASE own = {}
  BY <1>1 DEF LastRepayment
<1>2. CASE own # {}
  <2>1. Max(own) \in own /\ \A y \in own : y <= Max(own)
    BY <1>2, MaxOfNats
  <2>2. LastRepayment(rows) = Max(own)
    BY <1>2 DEF LastRepayment
  <2>. QED
    BY <2>1, <2>2
<1>. QED
  BY <1>1, <1>2

LEMMA SetToSeqLists ==
    ASSUME NEW S, IsFiniteSet(S)
    PROVE  \E n \in Nat :
              /\ SetToSeq(S) \in [1..n -> S] /\ IsInjective(SetToSeq(S))
              /\ \A x \in S : \E i \in 1..n : SetToSeq(S)[i] = x
<1> DEFINE n == Cardinality(S)
           s == SetToSeq(S)
<1>1. n \in Nat /\ ExistsBijection(1..n, S)
  BY FS_CardinalityType
<1>2. \E f \in [1..n -> S] : IsInjective(f)
  BY <1>1 DEF ExistsBijection, Bijection, Injection
<1>3. s \in [1..n -> S] /\ IsInjective(s)
  BY <1>2 DEF SetToSeq
<1>4. s \in Injection(1..n, S)
  BY <1>3 DEF Injection
<1>5. Cardinality(1..n) = n
  BY <1>1, FS_Interval
<1>6. s \in Surjection(1..n, S)
  BY <1>4, <1>5, FS_Injection
<1>. QED
  BY <1>1, <1>3, <1>6 DEF Surjection

LEMMA MemberFinite == IsFiniteSet(Member) /\ Borrower \in Member
<1>1. Roll \in Surjection(1..Len(Roll), Member)
  <2>1. Roll \in Seq(Member)
    BY FormsAssumption DEF Member
  <2>2. \A m \in Member : \E i \in DOMAIN Roll : Roll[i] = m
    BY DEF Member, ToSet
  <2>. QED
    BY <2>1, <2>2 DEF Surjection
<1>2. IsFiniteSet(1..Len(Roll))
  BY FormsAssumption, FS_Interval
<1>3. IsFiniteSet(Member)
  BY <1>1, <1>2, FS_Surjection
<1>4. Borrower \in Member
  BY FormsAssumption DEF Borrower, Member, ToSet
<1>. QED
  BY <1>3, <1>4
-----------------------------------------------------------------------------
(* The tab (Forms, SupportPages).  Types and what they rest on.            *)

TabState ==
    [screen : {"list", "form", "broken"}, visit : Nat, intent : Nat,
     step : {"edit", "confirm", "done"}, op : Operation \cup {"none"},
     draft : [Member -> 0..MaxAmount], key : Nat, file : Nat, files : Nat,
     uploading : BOOLEAN, loaded : BOOLEAN, told : SUBSET {"already", "success"},
     answered : Nat, refetch : {"none", "awaited", "cut off"}, allocation : Nat]

Mutation ==
    [op : Operation, key : Nat, items : [Member -> 0..MaxAmount], file : Nat,
     visit : Nat, intent : Nat]

StoredRow ==
    [op : Operation, key : Nat \cup Member, member : Member, amount : Nat, file : Nat, by : Nat]

\* What a fetch of the forms may be: their requests ask for nothing in particular.
FetchState == {Idle, Sent(NoData)} \cup [stage : {"read"}, answer : Nat]

FormsTyped ==
    /\ area \in Area \ {"admin"} /\ tab \in TabState
    /\ sent \in Seq(Mutation) /\ Len(sent) <= MaxRequests
    /\ fate \in [1..MaxRequests -> {"unsent", "inFlight", "recorded", "refused", "linked"}]
    /\ pending \subseteq DOMAIN sent
    /\ acknowledged \subseteq DOMAIN sent /\ gaveUp \subseteq DOMAIN sent
    /\ stored \in Seq(StoredRow)
    /\ data \in [Key -> Nat \cup {NoData}] /\ fetch \in [Key -> FetchState]
    /\ fresh \subseteq Key /\ failed \subseteq Key

\* Every area sends mutations of its own.
OpsOf(a) ==
    CASE a = "repay" -> {"repayment"}
      [] a = "entry" -> {"bulk"}
      [] a = "request" -> {"application"}
      [] OTHER -> Dialog[a]

OpsInv ==
    /\ \A r \in DOMAIN sent : sent[r].op \in OpsOf(area)
    /\ tab.op \in Dialog[area] \cup {"none"}
    /\ tab.screen = "broken" => area = "repay"

\* A mounted repayment page has one key.
KeysInv ==
    /\ \A r \in DOMAIN sent : sent[r].visit <= tab.visit
    /\ \A r \in DOMAIN sent : sent[r].op = "repayment" =>
          /\ sent[r].key # 0
          /\ tab.screen # "list" /\ sent[r].visit = tab.visit => tab.key = sent[r].key
    /\ \A q, r \in DOMAIN sent :
          sent[q].op = "repayment" /\ sent[r].op = "repayment" /\ sent[q].visit = sent[r].visit =>
              sent[q].key = sent[r].key

\* A file is uploaded in one visit.
FilesInv ==
    /\ tab.file <= tab.files
    /\ \A r \in DOMAIN sent : sent[r].file # NoFile =>
          /\ sent[r].file <= tab.files
          /\ sent[r].file = tab.file => sent[r].visit = tab.visit
    /\ \A q, r \in DOMAIN sent :
          sent[q].file # NoFile /\ sent[q].file = sent[r].file => sent[q].visit = sent[r].visit

\* Row i is what request `by` asked for.
FromRequest(i) ==
    LET by == stored[i].by IN
    /\ by \in DOMAIN sent /\ stored[i].op = sent[by].op
    /\ fate[by] \notin {"unsent", "inFlight"}
    /\ stored[i].op # "bulk" => fate[by] = "recorded"
    /\ stored[i].op = "repayment" => stored[i].key = sent[by].key /\ stored[i].file = sent[by].file

RowsInv ==
    /\ \A i \in DOMAIN stored :
          /\ stored[i].by # 0 => FromRequest(i)
          /\ stored[i].file # NoFile => stored[i].by # 0 /\ stored[i].op = "repayment"
          /\ stored[i].op = "bulk" => stored[i].key = stored[i].member
    /\ \A i, j \in DOMAIN stored : i # j /\ stored[i].op = stored[j].op =>
          CASE stored[i].op = "repayment" -> stored[i].by # 0 /\ stored[j].by # 0 => stored[i].key # stored[j].key
            [] stored[i].op = "bulk" -> stored[i].key # stored[j].key
            [] OTHER -> stored[i].by # 0 => stored[i].by # stored[j].by

\* The rows have what r asked for.
Served(r) ==
    CASE sent[r].op = "repayment" -> Stored("repayment", sent[r].key)
      [] sent[r].op = "bulk" -> \A m \in Member : sent[r].items[m] > 0 => Stored("bulk", m)
      [] OTHER -> \E i \in DOMAIN stored : stored[i].by = r

FateInv ==
    \A r \in DOMAIN sent :
        /\ fate[r] = "recorded" => Served(r)
        /\ fate[r] = "linked" => sent[r].op = "repayment" /\ Served(r)

\* An intention leads to one submission, unless the one before it failed.
IntentInv ==
    /\ \A r \in DOMAIN sent :
          /\ sent[r].intent \in 1..r
          /\ sent[r].intent = tab.intent => sent[r].visit = tab.visit
          /\ r \in pending \cup acknowledged \cup gaveUp \/ fate[r] \in {"refused", "linked"}
          /\ r \in acknowledged => fate[r] = "recorded"
          /\ r \in acknowledged /\ sent[r].intent = tab.intent
                /\ sent[r].op \notin {"repayment", "bulk"} =>
                 \/ tab.screen = "list"
                 \/ tab.step = "edit" /\ sent[r].op # "application"
    /\ tab.intent <= Len(sent) + 1
    /\ tab.screen # "list" => tab.intent # 0
    /\ \A q, r \in DOMAIN sent :
          q # r /\ sent[q].intent = sent[r].intent /\ sent[q].op \notin {"repayment", "bulk"} =>
              {q, r} \cap gaveUp # {} \/ fate[q] \in {"refused", "linked"}
                                      \/ fate[r] \in {"refused", "linked"}

\* The answers hold rows that there are; what is fresh is not being fetched; and
\* what the tab has seen acknowledged is in them.
Showing(r) ==
    CASE sent[r].op = "application" -> {}
      [] sent[r].op = "bulk" -> {List}
      [] OTHER -> {Detail, List}

RowsBefore(r, n) == \A i \in DOMAIN stored : stored[i].by = r => i <= n

AnswersInv ==
    /\ \A k \in Key :
          /\ fetch[k].stage = "read" => fetch[k].answer <= Len(stored)
          /\ data[k] # NoData => data[k] <= Len(stored)
          /\ k \in fresh => fetch[k] = Idle /\ k \notin failed /\ data[k] # NoData
    /\ \A r \in acknowledged : \A k \in Showing(r) \ overtaken :
          /\ k \in fresh => RowsBefore(r, data[k])
          /\ fetch[k].stage = "read" => RowsBefore(r, fetch[k].answer)

\* A repayment page that has not thrown has its data; the answer that it awaits
\* was sent after the repayment was recorded.
PageInv ==
    /\ tab.allocation <= Len(stored)
    /\ area = "repay" =>
        /\ tab.screen = "form" => (tab.loaded <=> data[Detail] # NoData /\ Detail \notin failed)
        /\ tab.screen = "form" =>
              \A r \in DOMAIN sent : sent[r].visit = tab.visit => data[Detail] # NoData
        /\ tab.refetch = "awaited" =>
              /\ tab.screen # "list" /\ tab.answered \in DOMAIN sent /\ sent[tab.answered].visit = tab.visit
              /\ fate[tab.answered] = "recorded"
              /\ fetch[Detail].stage = "read" =>
                    \E i \in 1..fetch[Detail].answer :
                       stored[i].op = "repayment" /\ stored[i].key = tab.key

ToldInv ==
    /\ area = "repay" /\ tab.screen = "list" => tab.told = {} /\ tab.refetch = "none"
    /\ area # "repay" => tab.refetch = "none" /\ tab.told \subseteq {"success"}
    /\ "already" \in tab.told => Stored("repayment", tab.key)
    /\ "success" \in tab.told =>
          /\ tab.answered \in DOMAIN sent /\ fate[tab.answered] = "recorded"
          /\ area = "repay" =>
                /\ sent[tab.answered].visit = tab.visit
                /\ tab.refetch = "none" => \E i \in 1..tab.allocation : stored[i].key = tab.key
    /\ area = "repay" /\ "already" \in tab.told => tab.key # 0

FormsInv ==
    FormsTyped /\ OpsInv /\ KeysInv /\ FilesInv /\ RowsInv /\ FateInv /\ IntentInv /\ AnswersInv
        /\ PageInv /\ ToldInv
-----------------------------------------------------------------------------
(* The kinds of steps of the forms, and that each keeps the invariant.     *)

\* A visit goes on: its page, its key and what it has told are the same.
SameVisit ==
    /\ tab'.screen = tab.screen /\ tab'.visit = tab.visit /\ tab'.key = tab.key
    /\ tab'.told = tab.told /\ tab'.answered = tab.answered /\ tab'.refetch = tab.refetch
    /\ tab'.allocation = tab.allocation /\ tab'.loaded = tab.loaded

Edits ==
    /\ UNCHANGED <<cacheVars, area, sent, pending, serverVars, historyVars>>
    /\ tab' \in TabState /\ SameVisit
    /\ tab'.op \in Dialog[area] \cup {"none"}
    /\ \/ tab'.files = tab.files /\ tab'.file \in {tab.file, NoFile}
       \/ tab'.files = tab.files + 1 /\ tab'.file = tab.files + 1
    /\ \/ tab'.intent = Len(sent) + 1
       \/ /\ tab'.intent = tab.intent
          /\ tab'.step \in {tab.step, "edit"} \/ area \in {"entry", "request"}

LEMMA SentTypes ==
    ASSUME FormsTyped
    PROVE  /\ Len(sent) \in Nat /\ DOMAIN sent = 1..Len(sent)
           /\ \A r \in DOMAIN sent : sent[r] \in Mutation
           /\ \A r \in DOMAIN sent :
                 /\ sent[r].op \in Operation /\ sent[r].key \in Nat /\ sent[r].file \in Nat
                 /\ sent[r].visit \in Nat /\ sent[r].intent \in Nat
                 /\ sent[r].items \in [Member -> 0..MaxAmount]
           /\ tab.file \in Nat /\ tab.files \in Nat /\ tab.key \in Nat
           /\ tab.visit \in Nat /\ tab.intent \in Nat
<1>1. Len(sent) \in Nat /\ DOMAIN sent = 1..Len(sent) /\ \A r \in DOMAIN sent : sent[r] \in Mutation
  BY DEF FormsTyped
<1>2. tab \in TabState
  BY DEF FormsTyped
<1>. QED
  BY <1>1, <1>2 DEF Mutation, TabState

LEMMA RowTypes ==
    ASSUME FormsTyped
    PROVE  /\ Len(stored) \in Nat /\ DOMAIN stored = 1..Len(stored)
           /\ \A i \in DOMAIN stored :
                 /\ stored[i] \in StoredRow
                 /\ stored[i].op \in Operation /\ stored[i].file \in Nat /\ stored[i].by \in Nat
           /\ tab.allocation \in Nat
<1>1. Len(stored) \in Nat /\ DOMAIN stored = 1..Len(stored)
      /\ \A i \in DOMAIN stored : stored[i] \in StoredRow
  BY DEF FormsTyped
<1>2. tab \in TabState
  BY DEF FormsTyped
<1>. QED
  BY <1>1, <1>2 DEF StoredRow, TabState

LEMMA ServerSame ==
    ASSUME UNCHANGED <<sent, fate, stored>>, RowsInv, FateInv
    PROVE  RowsInv' /\ FateInv'
BY DEF RowsInv, FateInv, FromRequest, Served, Stored

LEMMA EditsKeepInv ==
    ASSUME FormsInv, Edits
    PROVE  FormsInv'
<1> USE DEF FormsInv
<1>1. UNCHANGED <<data, fresh, fetch, failed, area, sent, fate, stored, pending,
                  acknowledged, gaveUp, overtaken>>
  BY DEF Edits, cacheVars, serverVars, historyVars
<1>2. FormsTyped'
  BY <1>1 DEF FormsTyped, Edits
<1>3. OpsInv'
  BY <1>1 DEF OpsInv, Edits, SameVisit
<1>4. KeysInv'
  BY <1>1 DEF KeysInv, Edits, SameVisit
<1>5. FilesInv'
  <2>1. tab.file \in Nat /\ tab.files \in Nat /\ \A r \in DOMAIN sent : sent[r].file \in Nat
    BY SentTypes
  <2>2. CASE tab'.files = tab.files /\ tab'.file \in {tab.file, NoFile}
    BY <1>1, <2>1, <2>2 DEF FilesInv, Edits, SameVisit, NoFile
  <2>3. CASE tab'.files = tab.files + 1 /\ tab'.file = tab.files + 1
    <3>1. \A r \in DOMAIN sent : sent[r].file # NoFile =>
             sent[r].file <= tab'.files /\ sent[r].file # tab'.file
      BY <2>1, <2>3 DEF FilesInv
    <3>. QED
      BY <1>1, <2>1, <2>3, <3>1 DEF FilesInv, Edits, SameVisit
  <2>. QED
    BY <2>2, <2>3 DEF Edits
<1>6. RowsInv' /\ FateInv'
  BY <1>1, ServerSame
<1>7. IntentInv'
  <2>1. \A r \in DOMAIN sent : sent[r].op \in OpsOf(area) /\ sent[r].intent # Len(sent) + 1
    BY DEF OpsInv, IntentInv, FormsTyped
  <2>2. \A r \in DOMAIN sent : area \in {"entry", "request"} /\ sent[r].op \notin {"repayment", "bulk"} =>
            sent[r].op = "application"
    BY <2>1 DEF OpsOf
  <2>. QED
    BY <1>1, <2>1, <2>2 DEF IntentInv, Edits, SameVisit, FormsTyped
<1>8. AnswersInv'
  BY <1>1 DEF AnswersInv, Showing, RowsBefore
<1>9. PageInv'
  BY <1>1 DEF PageInv, Edits, SameVisit
<1>10. ToldInv'
  BY <1>1 DEF ToldInv, Edits, SameVisit, Stored
<1>. QED
  BY <1>2, <1>3, <1>4, <1>5, <1>6, <1>7, <1>8, <1>9, <1>10

LEMMA TabUpdates ==
    /\ \A t \in TabState, n \in Nat :
          [t EXCEPT !.uploading = FALSE, !.file = n + 1, !.files = n + 1] \in TabState
    /\ \A t \in TabState, op \in Operation, n \in Nat :
          [t EXCEPT !.step = "confirm", !.op = op, !.intent = n + 1] \in TabState
<1>1. ASSUME NEW t \in TabState, NEW n \in Nat
      PROVE [t EXCEPT !.uploading = FALSE, !.file = n, !.files = n] \in TabState
  BY DEF TabState
<1>2. ASSUME NEW t \in TabState, NEW op \in Operation, NEW n \in Nat
      PROVE [t EXCEPT !.step = "confirm", !.op = op, !.intent = n] \in TabState
  BY DEF TabState
<1>3. \A n \in Nat : n + 1 \in Nat
  OBVIOUS
<1>. QED
  BY <1>1, <1>2, <1>3

LEMMA EditingSteps ==
    ASSUME FormsInv,
           \/ TypeRepayment \/ TypeRow \/ TypeApplication
           \/ SelectFile \/ FinishUpload \/ RemoveFile \/ ReviewBatch \/ ReviewApplication
           \/ OpenReversal \/ OpenDecision \/ OpenServicing \/ Back
    PROVE  Edits
<1>1. tab \in TabState /\ sent \in Seq(Mutation) /\ tab.op \in Dialog[area] \cup {"none"}
  BY DEF FormsInv, FormsTyped, OpsInv
<1>2. ASSUME NEW m \in Member, TypeAmount(m) PROVE Edits
  <2>1. PICK v \in 0..MaxAmount : tab' = [tab EXCEPT !.draft[m] = v]
    BY <1>2 DEF TypeAmount
  <2>2. tab' \in TabState /\ SameVisit
    BY <1>1, <2>1 DEF TabState, SameVisit
  <2>. QED
    BY <1>1, <1>2, <2>1, <2>2 DEF TypeAmount, Edits, TabState
<1>3. CASE TypeRepayment \/ TypeRow \/ TypeApplication
  BY <1>2, <1>3, MemberFinite DEF TypeRepayment, TypeRow, TypeApplication
<1>4. CASE SelectFile
  <2>1. tab' = [tab EXCEPT !.uploading = TRUE]
    BY <1>4 DEF SelectFile
  <2>2. tab' \in TabState /\ SameVisit
    BY <1>1, <2>1 DEF TabState, SameVisit
  <2>. QED
    BY <1>1, <1>4, <2>1, <2>2 DEF SelectFile, Edits, TabState
<1>5. CASE FinishUpload
  <2>1. CASE tab' = [tab EXCEPT !.uploading = FALSE, !.file = tab.files + 1, !.files = tab.files + 1]
    <3>3. tab' \in TabState
      BY <1>1, <2>1, TabUpdates, SentTypes DEF FormsInv
    <3>2. SameVisit
      BY <1>1, <2>1 DEF TabState, SameVisit
    <3>4. /\ tab'.op = tab.op /\ tab'.intent = tab.intent /\ tab'.step = tab.step
          /\ tab'.files = tab.files + 1 /\ tab'.file = tab.files + 1
      BY <1>1, <2>1 DEF TabState
    <3>5. UNCHANGED <<cacheVars, area, sent, pending, serverVars, historyVars>>
      BY <1>5 DEF FinishUpload
    <3>. QED
      BY <1>1, <3>2, <3>3, <3>4, <3>5 DEF Edits
  <2>2. CASE tab' = [tab EXCEPT !.uploading = FALSE]
    <3>1. tab' \in TabState /\ SameVisit
      BY <1>1, <2>2 DEF TabState, SameVisit
    <3>. QED
      BY <1>1, <1>5, <2>2, <3>1 DEF FinishUpload, Edits, TabState
  <2>. QED
    BY <1>5, <2>1, <2>2 DEF FinishUpload
<1>6. CASE RemoveFile
  <2>1. tab' = [tab EXCEPT !.file = NoFile]
    BY <1>6 DEF RemoveFile
  <2>2. tab' \in TabState /\ SameVisit
    BY <1>1, <2>1 DEF TabState, SameVisit, NoFile
  <2>. QED
    BY <1>1, <1>6, <2>1, <2>2 DEF RemoveFile, Edits, TabState
<1>7. CASE ReviewBatch \/ ReviewApplication
  <2>1. tab' = [tab EXCEPT !.step = "confirm"] /\ area \in {"entry", "request"}
    BY <1>7 DEF ReviewBatch, ReviewApplication, Review
  <2>2. tab' \in TabState /\ SameVisit
    BY <1>1, <2>1 DEF TabState, SameVisit
  <2>. QED
    BY <1>1, <1>7, <2>1, <2>2 DEF ReviewBatch, ReviewApplication, Review, Edits, TabState
<1>8. ASSUME NEW op \in Dialog[area], OpenDialog(op) PROVE Edits
  <2>1. tab' = [tab EXCEPT !.step = "confirm", !.op = op, !.intent = Len(sent) + 1]
    BY <1>8 DEF OpenDialog
  <2>2. op \in Operation /\ Len(sent) \in Nat
    BY <1>1 DEF Operation, FormsInv, FormsTyped
  <2>3. tab' \in TabState
    BY <1>1, <2>1, <2>2, TabUpdates
  <2>4. SameVisit
    BY <1>1, <2>1 DEF TabState, SameVisit
  <2>. QED
    BY <1>1, <1>8, <2>1, <2>3, <2>4 DEF OpenDialog, Edits, TabState
<1>9. CASE OpenReversal \/ OpenDecision \/ OpenServicing
  <2>1. area = "reverse" => "reversal" \in Dialog[area]
    BY DEF Dialog, Area
  <2>. QED
    BY <1>8, <1>9, <2>1 DEF OpenReversal, OpenDecision, OpenServicing
<1>10. CASE Back
  <2>1. tab' = [tab EXCEPT !.step = "edit", !.op = "none"]
    BY <1>10 DEF Back
  <2>2. tab' \in TabState /\ SameVisit
    BY <1>1, <2>1 DEF TabState, SameVisit
  <2>. QED
    BY <1>1, <1>10, <2>1, <2>2 DEF Back, Edits, TabState
<1>. QED
  BY <1>3, <1>4, <1>5, <1>6, <1>7, <1>9, <1>10

\* Fetches are sent, none of what is fresh; what is cached stays.
Refetches ==
    /\ UNCHANGED <<data, fresh, failed, area, sent, pending, serverVars, acknowledged, gaveUp>>
    /\ fetch' \in [Key -> FetchState]
    /\ \A k \in Key :
          \/ fetch'[k] = fetch[k] /\ (k \in overtaken => k \in overtaken')
          \/ fetch'[k] = Sent(NoData) /\ k \notin fresh

LEMMA KeysOfForms == Detail \in Key /\ List \in Key /\ Detail # List
BY FormsAssumption DEF Detail, List

LEMMA FetchStates ==
    /\ Idle \in FetchState /\ Sent(NoData) \in FetchState
    /\ Idle.stage = "idle" /\ Sent(NoData).stage = "sent" /\ Idle # Sent(NoData)
    /\ \A f \in FetchState : /\ f.stage = "read" => f.answer \in Nat
                             /\ f.stage = "idle" <=> f = Idle
                             /\ f.stage = "sent" <=> f = Sent(NoData)
                             /\ f.stage \in {"idle", "sent", "read"}
BY DEF FetchState, Idle, Sent

LEMMA RefetchAnswers ==
    ASSUME FormsTyped, AnswersInv, Refetches
    PROVE  AnswersInv'
<1>1. UNCHANGED <<data, fresh, failed, stored, acknowledged, sent>>
  BY DEF Refetches, serverVars
<1>2. \A k \in Key : k \in fresh => fetch'[k] = Idle
  BY FetchStates DEF Refetches, AnswersInv
<1>3. \A k \in Key : fetch'[k].stage = "read" =>
          fetch'[k] = fetch[k] /\ (k \in overtaken => k \in overtaken')
  BY FetchStates DEF Refetches
<1>4. \A k \in fresh : k \in overtaken => k \in overtaken'
  BY FetchStates DEF Refetches, FormsTyped
<1>5. \A r : Showing(r) \subseteq Key
  BY KeysOfForms DEF Showing
<1>6. \A k \in Key :
          /\ fetch'[k].stage = "read" => fetch'[k].answer <= Len(stored)
          /\ data[k] # NoData => data[k] <= Len(stored)
          /\ k \in fresh => fetch'[k] = Idle /\ k \notin failed /\ data[k] # NoData
  BY <1>2, <1>3 DEF AnswersInv
<1>7. \A r \in acknowledged : \A k \in Showing(r) \ overtaken' :
          /\ k \in fresh => RowsBefore(r, data[k])
          /\ fetch'[k].stage = "read" => RowsBefore(r, fetch'[k].answer)
  BY <1>3, <1>4, <1>5 DEF AnswersInv
<1>. QED
  BY <1>1, <1>6, <1>7 DEF AnswersInv, Showing, RowsBefore

\* What the page awaits is asked for again, or on its way as it was.
LEMMA RefetchAwaited ==
    ASSUME Refetches, NEW n, fetch'[Detail].stage = "read"
    PROVE  fetch'[Detail] = fetch[Detail]
BY KeysOfForms, FetchStates DEF Refetches

LEMMA StaysKeepInv ==
    ASSUME FormsInv, Refetches, tab' = tab
    PROVE  FormsInv'
<1>1. UNCHANGED <<data, fresh, failed, area, sent, fate, stored, pending, acknowledged, gaveUp, tab>>
  BY DEF Refetches, serverVars
<1>2. FormsTyped'
  BY <1>1 DEF FormsInv, FormsTyped, Refetches
<1>3. OpsInv' /\ KeysInv' /\ FilesInv' /\ ToldInv'
  BY <1>1 DEF FormsInv, OpsInv, KeysInv, FilesInv, ToldInv, Stored
<1>4. RowsInv' /\ FateInv'
  BY <1>1, ServerSame DEF FormsInv
<1>5. IntentInv'
  BY <1>1 DEF FormsInv, IntentInv
<1>6. AnswersInv'
  BY RefetchAnswers DEF FormsInv
<1>7. PageInv'
  BY <1>1, RefetchAwaited DEF FormsInv, PageInv
<1>. QED
  BY <1>2, <1>3, <1>4, <1>5, <1>6, <1>7 DEF FormsInv

\* A page is left for the list.
Leaves ==
    tab' = [tab EXCEPT !.screen = "list", !.step = "edit", !.op = "none",
                       !.uploading = FALSE, !.refetch = "none", !.told = {}]

LEMMA LeavesKeepInv ==
    ASSUME FormsInv, Refetches, Leaves
    PROVE  FormsInv'
<1>1. UNCHANGED <<data, fresh, failed, area, sent, fate, stored, pending, acknowledged, gaveUp>>
  BY DEF Refetches, serverVars
<1>2. tab \in TabState
  BY DEF FormsInv, FormsTyped
<1>3. tab' \in TabState
  BY <1>2 DEF Leaves, TabState
<1>4. /\ tab'.screen = "list" /\ tab'.step = "edit" /\ tab'.op = "none" /\ tab'.refetch = "none"
      /\ tab'.told = {} /\ tab'.visit = tab.visit /\ tab'.file = tab.file /\ tab'.files = tab.files
      /\ tab'.intent = tab.intent /\ tab'.allocation = tab.allocation
  BY <1>2 DEF Leaves, TabState
<1>5. FormsTyped'
  BY <1>1, <1>3 DEF FormsInv, FormsTyped, Refetches
<1>6. OpsInv' /\ KeysInv' /\ FilesInv' /\ ToldInv'
  BY <1>1, <1>4 DEF FormsInv, OpsInv, KeysInv, FilesInv, ToldInv, Stored
<1>7. RowsInv' /\ FateInv'
  BY <1>1, ServerSame DEF FormsInv
<1>8. IntentInv'
  BY <1>1, <1>4 DEF FormsInv, IntentInv
<1>9. AnswersInv'
  BY RefetchAnswers DEF FormsInv
<1>10. PageInv'
  BY <1>1, <1>4 DEF FormsInv, PageInv
<1>. QED
  BY <1>5, <1>6, <1>7, <1>8, <1>9, <1>10 DEF FormsInv

\* A page is mounted, with what is cached by then.
Mounts(t) ==
    /\ t \in TabState
    /\ t.screen = "form" /\ t.visit = tab.visit + 1 /\ t.intent = Len(sent) + 1
    /\ t.step = "edit" /\ t.op = "none" /\ t.key = 0 /\ t.file = NoFile /\ t.files = tab.files
    /\ t.told = {} /\ t.refetch = "none" /\ t.allocation = 0

LEMMA NewFormFields ==
    ASSUME FormsTyped, NEW loaded \in BOOLEAN
    PROVE  LET t == [NewForm EXCEPT !.loaded = loaded] IN
           Mounts(NewForm) /\ NewForm.loaded = FALSE /\ Mounts(t) /\ t.loaded = loaded
<1>1. tab \in TabState /\ tab.visit \in Nat /\ tab.files \in Nat
      /\ tab.visit + 1 \in Nat /\ Len(sent) + 1 \in Nat
  BY SentTypes DEF FormsTyped
<1> DEFINE v == tab.visit + 1
           i == Len(sent) + 1
<1> HIDE DEF v, i
<1>2. BlankForm \in TabState
  BY FormsAssumption DEF BlankForm, TabState, NoFile
<1>3. NewForm = [BlankForm EXCEPT !.screen = "form", !.visit = v, !.intent = i, !.files = tab.files]
  BY DEF NewForm, v, i
<1>4. v \in Nat /\ i \in Nat
  BY <1>1 DEF v, i
<1>5. NewForm = [screen |-> "form", visit |-> v, intent |-> i, step |-> "edit", op |-> "none",
                 draft |-> [m \in Member |-> 0], key |-> 0, file |-> NoFile, files |-> tab.files,
                 uploading |-> FALSE, loaded |-> FALSE, told |-> {}, answered |-> 0,
                 refetch |-> "none", allocation |-> 0]
  BY <1>3 DEF BlankForm
<1>6. [m \in Member |-> 0] \in [Member -> 0..MaxAmount]
  BY FormsAssumption
<1>7. NewForm \in TabState
  BY <1>1, <1>4, <1>5, <1>6 DEF TabState, NoFile
<1>8. [NewForm EXCEPT !.loaded = loaded] \in TabState
  BY <1>7 DEF TabState
<1>9. Mounts(NewForm) /\ NewForm.loaded = FALSE
  BY <1>5, <1>7 DEF Mounts, v, i
<1> DEFINE t == [NewForm EXCEPT !.loaded = loaded]
<1>10. /\ t.screen = "form" /\ t.visit = v /\ t.intent = i
       /\ t.step = "edit" /\ t.op = "none" /\ t.key = 0 /\ t.file = NoFile
       /\ t.files = tab.files /\ t.told = {} /\ t.refetch = "none" /\ t.loaded = loaded
       /\ t.allocation = 0
  BY <1>5
<1>. QED
  BY <1>8, <1>9, <1>10 DEF Mounts, v, i

\* The tab begins anew at the list.
Begins(t) ==
    /\ t \in TabState
    /\ t.screen = "list" /\ t.intent = 0 /\ t.visit = tab.visit /\ t.op = "none"
    /\ t.file = NoFile /\ t.files = tab.files /\ t.told = {} /\ t.refetch = "none"
    /\ t.allocation = 0

LEMMA BlankFormFields ==
    ASSUME NEW v \in Nat, NEW f \in Nat, v = tab.visit, f = tab.files
    PROVE  Begins([BlankForm EXCEPT !.visit = v, !.files = f])
<1>1. [m \in Member |-> 0] \in [Member -> 0..MaxAmount]
  BY FormsAssumption
<1>2. BlankForm \in TabState
  BY <1>1 DEF BlankForm, TabState, NoFile
<1>3. BlankForm.screen = "list" /\ BlankForm.intent = 0 /\ BlankForm.op = "none"
      /\ BlankForm.file = NoFile /\ BlankForm.told = {} /\ BlankForm.refetch = "none"
      /\ BlankForm.allocation = 0
  BY DEF BlankForm
<1> HIDE DEF BlankForm
<1>4. [BlankForm EXCEPT !.visit = v, !.files = f] \in TabState
  BY <1>2 DEF TabState
<1>. QED
  BY <1>2, <1>3, <1>4 DEF Begins, TabState

\* What has been sent was sent in an earlier visit.
LEMMA MountedAnew ==
    ASSUME FormsInv, Mounts(tab'), UNCHANGED <<area, sent, fate, stored>>,
           IntentInv' \/ UNCHANGED <<pending, acknowledged, gaveUp>>
                      \/ (pending' = {} /\ gaveUp' = gaveUp \cup pending /\ acknowledged' = acknowledged)
    PROVE  OpsInv' /\ KeysInv' /\ FilesInv' /\ IntentInv' /\ ToldInv'
<1>1. \A r \in DOMAIN sent : sent[r].visit # tab'.visit /\ sent[r].visit <= tab'.visit
  BY SentTypes DEF FormsInv, KeysInv, Mounts
<1>2. \A r \in DOMAIN sent : sent[r].intent # tab'.intent
  BY SentTypes DEF FormsInv, IntentInv, Mounts
<1>3. OpsInv'
  BY DEF FormsInv, OpsInv, Mounts
<1>4. KeysInv'
  BY <1>1 DEF FormsInv, KeysInv, Mounts
<1>5. FilesInv'
  BY SentTypes DEF FormsInv, FilesInv, Mounts, NoFile
<1>6. IntentInv'
  <2>1. tab'.intent # 0 /\ tab'.intent <= Len(sent) + 1
    BY SentTypes DEF FormsInv, Mounts
  <2>. QED
    BY <1>2, <2>1, SentTypes DEF FormsInv, IntentInv, Mounts
<1>7. ToldInv'
  BY DEF ToldInv, Mounts
<1>. QED
  BY <1>3, <1>4, <1>5, <1>6, <1>7

LEMMA MountsKeepInv ==
    ASSUME FormsInv, Refetches, Mounts(tab'),
           area = "repay" => (tab'.loaded <=> data[Detail] # NoData /\ Detail \notin failed)
    PROVE  FormsInv'
<1>1. UNCHANGED <<data, fresh, failed, area, sent, fate, stored, pending, acknowledged, gaveUp>>
  BY DEF Refetches, serverVars
<1>2. FormsTyped'
  BY <1>1 DEF FormsInv, FormsTyped, Refetches, Mounts
<1>3. OpsInv' /\ KeysInv' /\ FilesInv' /\ IntentInv' /\ ToldInv'
  BY <1>1, MountedAnew
<1>4. RowsInv' /\ FateInv'
  BY <1>1, ServerSame DEF FormsInv
<1>5. AnswersInv'
  BY RefetchAnswers DEF FormsInv
<1>6. PageInv'
  <2>1. \A r \in DOMAIN sent : sent[r].visit # tab'.visit
    BY SentTypes DEF FormsInv, KeysInv, Mounts
  <2>. QED
    BY <1>1, <2>1, RowTypes DEF FormsInv, PageInv, Mounts
<1>. QED
  BY <1>2, <1>3, <1>4, <1>5, <1>6 DEF FormsInv

LEMMA ShownTypes ==
    /\ \A screen : ShownBy(screen) \subseteq {Detail, List} /\ ShownBy(screen) \subseteq Key
    /\ area = "repay" => ShownBy("form") = {Detail}
BY KeysOfForms DEF ShownBy

\* A reload: nothing is cached, nothing that was sent is awaited.
LEMMA ReloadKeepsCache ==
    ASSUME FormsInv, NEW screen, Reload(screen)
    PROVE  /\ UNCHANGED <<area, sent, fate, stored, acknowledged>>
           /\ pending' = {} /\ gaveUp' = gaveUp \cup pending /\ gaveUp' \subseteq DOMAIN sent
           /\ data' = [k \in Key |-> NoData] /\ fresh' = {} /\ failed' = {}
           /\ fetch' \in [Key -> FetchState] /\ data' \in [Key -> Nat \cup {NoData}]
           /\ \A k \in Key : fetch'[k].stage # "read"
           /\ RowsInv' /\ FateInv' /\ AnswersInv'
<1>1. UNCHANGED <<area, sent, fate, stored, acknowledged>>
  BY DEF Reload, serverVars
<1>2. fetch' \in [Key -> FetchState] /\ \A k \in Key : fetch'[k].stage # "read"
  BY FetchStates DEF Reload
<1>3. data' = [k \in Key |-> NoData] /\ fresh' = {} /\ failed' = {}
  BY DEF Reload
<1>4. RowsInv' /\ FateInv'
  BY <1>1, ServerSame DEF FormsInv
<1>5. AnswersInv'
  <2>1. \A r : Showing(r)' \subseteq Key
    BY KeysOfForms DEF Showing
  <2>. QED
    BY <1>1, <1>2, <1>3, <2>1 DEF AnswersInv
<1>. QED
  BY <1>1, <1>2, <1>3, <1>4, <1>5 DEF Reload, FormsInv, FormsTyped

LEMMA ReloadFormKeepsInv ==
    ASSUME FormsInv, Reload("form"), tab' = NewForm
    PROVE  FormsInv'
<1>1. Mounts(tab') /\ tab'.loaded = FALSE
  BY NewFormFields DEF FormsInv
<1>2. FormsTyped'
  BY <1>1, ReloadKeepsCache DEF FormsInv, FormsTyped, Mounts
<1>3. OpsInv' /\ KeysInv' /\ FilesInv' /\ IntentInv' /\ ToldInv'
  BY <1>1, MountedAnew, ReloadKeepsCache
<1>4. PageInv'
  <2>1. \A r \in DOMAIN sent : sent[r].visit # tab'.visit
    BY <1>1, SentTypes DEF FormsInv, KeysInv, Mounts
  <2>. QED
    BY <1>1, <2>1, KeysOfForms, ReloadKeepsCache, RowTypes DEF FormsInv, PageInv, Mounts
<1>. QED
  BY <1>2, <1>3, <1>4, ReloadKeepsCache DEF FormsInv

LEMMA ReloadListKeepsInv ==
    ASSUME FormsInv, Reload("list"),
           tab' = [BlankForm EXCEPT !.visit = tab.visit, !.files = tab.files]
    PROVE  FormsInv'
<1>1. /\ UNCHANGED <<area, sent, fate, stored, acknowledged>>
      /\ pending' = {} /\ gaveUp' = gaveUp \cup pending
      /\ RowsInv' /\ FateInv' /\ AnswersInv'
  BY ReloadKeepsCache
<1>2. tab.visit \in Nat /\ tab.files \in Nat
  BY SentTypes DEF FormsInv
<1>3. Begins(tab')
  BY <1>2, BlankFormFields
<1>5. tab' \in TabState
  BY <1>3 DEF Begins
<1>6. /\ tab'.screen = "list" /\ tab'.intent = 0 /\ tab'.visit = tab.visit /\ tab'.op = "none"
      /\ tab'.file = NoFile /\ tab'.files = tab.files /\ tab'.told = {} /\ tab'.refetch = "none"
      /\ tab'.allocation = 0
  BY <1>3 DEF Begins
<1>7. FormsTyped'
  BY <1>5, ReloadKeepsCache DEF FormsInv, FormsTyped
<1>8. OpsInv' /\ KeysInv' /\ ToldInv' /\ PageInv'
  BY <1>1, <1>6, RowTypes DEF FormsInv, OpsInv, KeysInv, ToldInv, PageInv
<1>9. FilesInv'
  BY <1>1, <1>6, SentTypes DEF FormsInv, FilesInv, NoFile
<1>10. IntentInv'
  <2>1. \A r \in DOMAIN sent : sent[r].intent # 0
    BY SentTypes DEF FormsInv, IntentInv
  <2>. QED
    BY <1>1, <1>6, <2>1 DEF FormsInv, IntentInv
<1>. QED
  BY <1>1, <1>7, <1>8, <1>9, <1>10 DEF FormsInv

LEMMA PageSteps ==
    ASSUME FormsInv,
           \/ ShowList \/ OpenForm \/ OpenByAddress \/ Refocus
           \/ \E k \in {Detail, List} : RetryQuery(k) \/ (Lose(k) /\ fetch'[k].stage = "sent")
    PROVE  FormsInv'
<1>1. fetch \in [Key -> FetchState]
  BY DEF FormsInv, FormsTyped
<1>2. \A ks : FetchIfStale(ks, NoData) \in [Key -> FetchState]
  BY <1>1, FetchStates DEF FetchIfStale
<1>3. ASSUME NEW ks, fetch' = FetchIfStale(ks, NoData),
             overtaken' = overtaken \ {k \in Key : fetch'[k] # fetch[k]},
             UNCHANGED <<data, fresh, failed, area, sent, pending, serverVars, acknowledged, gaveUp>>
      PROVE  Refetches
  BY <1>2, <1>3 DEF Refetches, FetchIfStale
<1>4. CASE ShowList
  BY <1>3, <1>4, LeavesKeepInv DEF ShowList, Leaves
<1>5. CASE OpenForm
  <2> DEFINE loaded == \A k \in ShownBy("form") : data[k] # NoData /\ k \notin failed
  <2>1. tab' = [NewForm EXCEPT !.loaded = loaded] /\ loaded \in BOOLEAN
    BY <1>5 DEF OpenForm
  <2>2. Mounts(tab') /\ tab'.loaded = loaded
    BY <2>1, NewFormFields DEF FormsInv
  <2>3. area = "repay" => (loaded <=> data[Detail] # NoData /\ Detail \notin failed)
    BY ShownTypes
  <2>. QED
    BY <1>3, <1>5, <2>2, <2>3, MountsKeepInv DEF OpenForm
<1>6. CASE OpenByAddress
  BY <1>6, ReloadFormKeepsInv, ReloadListKeepsInv DEF OpenByAddress
<1>7. CASE Refocus
  BY <1>3, <1>7, StaysKeepInv DEF Refocus
<1>8. ASSUME NEW k \in {Detail, List}, RetryQuery(k) PROVE FormsInv'
  <2>1. k \in Key /\ k \in failed /\ fetch[k] = Idle
    BY <1>8, KeysOfForms DEF RetryQuery
  <2>2. k \notin fresh
    BY <2>1 DEF FormsInv, AnswersInv
  <2>3. fetch' = [x \in Key |-> IF x = k THEN Sent(NoData) ELSE fetch[x]]
    BY <1>8, <2>1 DEF RetryQuery, FetchAnew
  <2>4. fetch' \in [Key -> FetchState]
    BY <1>1, <2>3, FetchStates
  <2>6. overtaken' = overtaken \ {k}
    BY <1>8 DEF RetryQuery
  <2>5. Refetches
    BY <1>1, <1>8, <2>2, <2>3, <2>4, <2>6 DEF Refetches, RetryQuery
  <2>. QED
    BY <1>8, <2>5, StaysKeepInv DEF RetryQuery
<1>9. ASSUME NEW k \in {Detail, List}, Lose(k), fetch'[k].stage = "sent" PROVE FormsInv'
  <2>1. k \in Key
    BY KeysOfForms
  <2>2. TryAgain(k, NoData) /\ overtaken' = overtaken \ {k}
        /\ UNCHANGED <<area, tab, sent, pending, serverVars, acknowledged, gaveUp>>
    BY <1>1, <1>9, <2>1, FetchStates DEF Lose, Fail
  <2>3. k \notin fresh
    BY <2>1, <2>2 DEF TryAgain, FormsInv, AnswersInv
  <2>4. Refetches
    BY <1>1, <2>1, <2>2, <2>3, FetchStates DEF Refetches, TryAgain
  <2>. QED
    BY <2>2, <2>4, StaysKeepInv
<1>. QED
  BY <1>4, <1>5, <1>6, <1>7, <1>8, <1>9

-----------------------------------------------------------------------------
(* Submitting.                                                             *)

LEMMA OpsOfAreas ==
    ASSUME area \in Area
    PROVE  /\ OpsOf(area) \subseteq Operation
           /\ \A op \in OpsOf(area) :
                 /\ op = "repayment" <=> area = "repay"
                 /\ op = "bulk" <=> area = "entry"
                 /\ op = "application" <=> area = "request"
                 /\ op \in {"repayment", "bulk"} => OpsOf(area) = {op}
BY DEF OpsOf, Operation, Dialog, Area

LEMMA SubmitKeepsInv ==
    ASSUME FormsInv, NEW op \in OpsOf(area), NEW key \in Nat, Submit(op, key),
           tab.screen = "form", ~IsPending,
           op = "repayment" => key = RepaymentKey /\ data[Detail] # NoData,
           op \notin {"repayment", "bulk"} => tab.step = "confirm" \/ op = "application"
    PROVE  FormsInv'
<1> DEFINE s == Len(sent) + 1
           new == [op |-> op, key |-> key, items |-> tab.draft, file |-> tab.file,
                   visit |-> tab.visit, intent |-> tab.intent]
<1>1. /\ Len(sent) < MaxRequests /\ sent' = Append(sent, new)
      /\ fate' = [fate EXCEPT ![s] = "inFlight"] /\ pending' = pending \cup {s}
      /\ tab' = [tab EXCEPT !.key = key, !.told = tab.told \ {"success"}]
      /\ UNCHANGED <<data, fresh, fetch, failed, area, stored, elsewhere, acknowledged, gaveUp, overtaken>>
  BY DEF Submit, cacheVars, historyVars
<1>2. tab \in TabState /\ area \in Area
  BY DEF FormsInv, FormsTyped
<1>3. op \in Operation
  BY <1>2, OpsOfAreas
<1>4. new \in Mutation
  BY <1>2, <1>3 DEF Mutation, TabState
<1>5. /\ sent' \in Seq(Mutation) /\ Len(sent') = s /\ DOMAIN sent' = DOMAIN sent \cup {s}
      /\ s \in Nat /\ s \notin DOMAIN sent /\ sent'[s] = new
      /\ \A r \in DOMAIN sent : r < s /\ r # s /\ sent'[r] = sent[r]
  BY <1>1, <1>4 DEF FormsInv, FormsTyped
<1>6. \A r \in DOMAIN sent : fate'[r] = fate[r]
  BY <1>1, <1>5, SentTypes DEF FormsInv, FormsTyped
<1>7. s \in 1..MaxRequests /\ fate'[s] = "inFlight"
  BY <1>1, FormsAssumption, SentTypes DEF FormsInv, FormsTyped
<1>8. /\ tab'.screen = tab.screen /\ tab'.visit = tab.visit /\ tab'.intent = tab.intent
      /\ tab'.step = tab.step /\ tab'.op = tab.op /\ tab'.file = tab.file /\ tab'.files = tab.files
      /\ tab'.loaded = tab.loaded /\ tab'.answered = tab.answered /\ tab'.refetch = tab.refetch
      /\ tab'.allocation = tab.allocation /\ tab'.key = key /\ tab'.told = tab.told \ {"success"}
  BY <1>1, <1>2 DEF TabState
<1>9. tab' \in TabState
  BY <1>1, <1>2 DEF TabState
<1>21. new.op = op /\ new.key = key /\ new.file = tab.file /\ new.visit = tab.visit
       /\ new.intent = tab.intent
  OBVIOUS
<1>22. tab.intent \in 1..s
  BY SentTypes DEF FormsInv, IntentInv
<1> HIDE DEF s, new
<1>10. FormsTyped'
  <2>1. fate' \in [1..MaxRequests -> {"unsent", "inFlight", "recorded", "refused", "linked"}]
    BY <1>1 DEF FormsInv, FormsTyped
  <2>2. Len(sent') <= MaxRequests
    BY <1>5, <1>21, <1>7
  <2>. QED
    BY <1>1, <1>5, <1>21, <1>9, <2>1, <2>2 DEF FormsInv, FormsTyped
<1>11. OpsInv'
  BY <1>1, <1>5, <1>21, <1>8 DEF FormsInv, OpsInv
\* The key of a page that has sent something is the key of what it sent.
<1>12. op = "repayment" =>
          /\ key # 0
          /\ \A r \in DOMAIN sent : sent[r].visit = tab.visit => sent[r].key = key
          /\ tab.key # 0 => key = tab.key
  <2>1. \A r \in DOMAIN sent : op = "repayment" => sent[r].op = "repayment"
    BY <1>2, OpsOfAreas DEF FormsInv, OpsInv
  <2>. QED
    BY <2>1, SentTypes DEF FormsInv, KeysInv, RepaymentKey
<1>13. KeysInv'
  <2>1. \A r \in DOMAIN sent : sent[r].op = "repayment" => op = "repayment"
    BY <1>2, OpsOfAreas DEF FormsInv, OpsInv
  <2>2. \A r \in DOMAIN sent' : sent'[r].visit <= tab'.visit
    BY <1>5, <1>21, <1>8, SentTypes DEF FormsInv, KeysInv
  <2>3. \A r \in DOMAIN sent' : sent'[r].op = "repayment" =>
          /\ sent'[r].key # 0
          /\ tab'.screen # "list" /\ sent'[r].visit = tab'.visit => tab'.key = sent'[r].key
    BY <1>5, <1>21, <1>8, <1>12, <2>1 DEF FormsInv, KeysInv
  <2>4. \A q, r \in DOMAIN sent' :
          sent'[q].op = "repayment" /\ sent'[r].op = "repayment" /\ sent'[q].visit = sent'[r].visit =>
              sent'[q].key = sent'[r].key
    BY <1>5, <1>21, <1>12, <2>1 DEF FormsInv, KeysInv
  <2>. QED
    BY <2>2, <2>3, <2>4 DEF KeysInv
<1>14. FilesInv'
  <2>1. \A r \in DOMAIN sent' : sent'[r].file # NoFile =>
          sent'[r].file <= tab'.files /\ (sent'[r].file = tab'.file => sent'[r].visit = tab'.visit)
    BY <1>5, <1>21, <1>8 DEF FormsInv, FilesInv
  <2>2. \A q, r \in DOMAIN sent' :
          sent'[q].file # NoFile /\ sent'[q].file = sent'[r].file => sent'[q].visit = sent'[r].visit
    BY <1>5, <1>21 DEF FormsInv, FilesInv
  <2>. QED
    BY <1>8, <2>1, <2>2 DEF FormsInv, FilesInv
<1>15. RowsInv'
  BY <1>1, <1>5, <1>21, <1>6 DEF FormsInv, RowsInv, FromRequest
<1>16. FateInv'
  BY <1>1, <1>5, <1>21, <1>6, <1>7 DEF FormsInv, FateInv, Served, Stored
<1>17. IntentInv'
  <2>1. \A r \in DOMAIN sent : sent[r].intent = tab.intent => r \notin pending
    BY DEF IsPending, FormsInv, IntentInv
  <2>2. \A r \in DOMAIN sent : sent[r].intent = tab.intent /\ sent[r].op \notin {"repayment", "bulk"} =>
            r \in gaveUp \/ fate[r] \in {"refused", "linked"}
    <3>1. SUFFICES ASSUME NEW r \in DOMAIN sent, sent[r].intent = tab.intent,
                          sent[r].op \notin {"repayment", "bulk"}, r \in acknowledged
                   PROVE  FALSE
      BY <2>1 DEF FormsInv, IntentInv
    <3>2. sent[r].op \in OpsOf(area) /\ op \notin {"repayment", "bulk"}
          /\ (op = "application" <=> sent[r].op = "application")
      BY <1>2, <3>1, OpsOfAreas DEF FormsInv, OpsInv
    <3>. QED
      BY <3>1, <3>2 DEF FormsInv, IntentInv
  <2>3. \A r \in DOMAIN sent : new.op \notin {"repayment", "bulk"} => sent[r].op \notin {"repayment", "bulk"}
    BY <1>2, <1>21, OpsOfAreas DEF FormsInv, OpsInv
  <2>4. \A r \in DOMAIN sent' :
          /\ sent'[r].intent \in 1..r
          /\ sent'[r].intent = tab'.intent => sent'[r].visit = tab'.visit
          /\ r \in pending' \cup acknowledged \cup gaveUp \/ fate'[r] \in {"refused", "linked"}
    BY <1>1, <1>5, <1>21, <1>22, <1>6, <1>8, SentTypes DEF FormsInv, IntentInv
  <2>5. \A r \in acknowledged :
          /\ fate'[r] = "recorded"
          /\ sent'[r].intent = tab'.intent /\ sent'[r].op \notin {"repayment", "bulk"} =>
                tab'.screen = "list" \/ (tab'.step = "edit" /\ sent'[r].op # "application")
    BY <1>5, <1>21, <1>6, <1>8 DEF FormsInv, FormsTyped, IntentInv
  <2>6. tab'.intent <= Len(sent') + 1 /\ (tab'.screen # "list" => tab'.intent # 0)
    BY <1>5, <1>21, <1>8, SentTypes DEF FormsInv, IntentInv, s
  <2>7. \A q, r \in DOMAIN sent' :
          q # r /\ sent'[q].intent = sent'[r].intent /\ sent'[q].op \notin {"repayment", "bulk"} =>
              {q, r} \cap gaveUp # {} \/ fate'[q] \in {"refused", "linked"}
                                      \/ fate'[r] \in {"refused", "linked"}
    BY <1>5, <1>21, <1>6, <2>2, <2>3 DEF FormsInv, IntentInv
  <2>. QED
    BY <1>1, <2>4, <2>5, <2>6, <2>7, SMTT(30) DEF IntentInv
<1>18. AnswersInv'
  <2>1. \A r \in acknowledged : r \in DOMAIN sent /\ Showing(r)' = Showing(r)
    BY <1>5, <1>21 DEF FormsInv, FormsTyped, Showing
  <2>. QED
    BY <1>1, <2>1 DEF FormsInv, AnswersInv, RowsBefore
<1>19. CASE area = "repay"
  <2>1. op = "repayment"
    BY <1>2, <1>19, OpsOfAreas
  <2>2. tab.refetch = "awaited" => tab.key # 0 /\ tab'.key = tab.key
    BY <1>2, <1>8, <1>12, <1>19, <2>1, OpsOfAreas DEF FormsInv, PageInv, KeysInv, OpsInv
  <2>3. PageInv'
    BY <1>1, <1>5, <1>21, <1>6, <1>8, <2>1, <2>2 DEF FormsInv, PageInv
  <2>4. ToldInv'
    BY <1>1, <1>5, <1>21, <1>6, <1>8, <1>12, <2>1 DEF FormsInv, ToldInv, Stored
  <2>. QED
    BY <2>3, <2>4, <1>10, <1>11, <1>13, <1>14, <1>15, <1>16, <1>17, <1>18 DEF FormsInv
<1>20. CASE area # "repay"
  <2>1. PageInv'
    BY <1>1, <1>8, <1>20 DEF FormsInv, PageInv
  <2>2. ToldInv'
    BY <1>1, <1>8, <1>20 DEF FormsInv, ToldInv
  <2>. QED
    BY <2>1, <2>2, <1>10, <1>11, <1>13, <1>14, <1>15, <1>16, <1>17, <1>18 DEF FormsInv
<1>. QED
  BY <1>19, <1>20

LEMMA SubmitSteps ==
    ASSUME FormsInv,
           \/ SubmitRepayment \/ SubmitBatch \/ SubmitApplication
           \/ ConfirmReversal \/ ConfirmApproval \/ ConfirmRejection \/ ConfirmWaiver \/ ConfirmReschedule
    PROVE  FormsInv'
<1>1. CASE SubmitRepayment
  <2>1. Detail \in Active /\ Active = ShownBy("form")
    BY <1>1, ShownTypes DEF SubmitRepayment, FormShown, Active
  <2>2. data[Detail] # NoData
    BY <1>1, <2>1 DEF SubmitRepayment, FormShown, Rendered
  <2>3. RepaymentKey \in Nat
    BY SentTypes DEF RepaymentKey, FormsInv
  <2>4. "repayment" \in OpsOf(area)
    BY <1>1 DEF SubmitRepayment, OpsOf
  <2>. QED
    BY <1>1, <2>2, <2>3, <2>4, SubmitKeepsInv DEF SubmitRepayment, FormShown
<1>2. CASE SubmitBatch
  <2>1. "bulk" \in OpsOf(area)
    BY <1>2 DEF SubmitBatch, OpsOf
  <2>. QED
    BY <1>2, <2>1, SubmitKeepsInv DEF SubmitBatch
<1>3. CASE SubmitApplication
  <2>1. "application" \in OpsOf(area)
    BY <1>3 DEF SubmitApplication, OpsOf
  <2>. QED
    BY <1>3, <2>1, SubmitKeepsInv DEF SubmitApplication
<1>4. ASSUME NEW op \in {"reversal", "approve", "reject", "waiver", "reschedule"}, ConfirmDialog(op)
      PROVE  FormsInv'
  <2>1. op \in Dialog[area]
    BY <1>4 DEF ConfirmDialog, FormsInv, OpsInv
  <2>2. op \in OpsOf(area)
    BY <2>1 DEF OpsOf, Dialog, FormsInv, FormsTyped, Area
  <2>. QED
    BY <1>4, <2>2, SubmitKeepsInv DEF ConfirmDialog, FormShown
<1>. QED
  BY <1>1, <1>2, <1>3, <1>4
     DEF ConfirmReversal, ConfirmApproval, ConfirmRejection, ConfirmWaiver, ConfirmReschedule

-----------------------------------------------------------------------------
(* The server.                                                             *)

\* `rows` are stored, those of request `by` or, if it is 0, of another client.
Appends(by, rows) ==
    /\ UNCHANGED <<cacheVars, area, tab, sent, pending, historyVars>>
    /\ rows \in Seq(StoredRow) /\ stored' = stored \o rows
    /\ \A i \in DOMAIN rows :
          /\ rows[i].by = by
          /\ rows[i].file # NoFile => by # 0 /\ rows[i].op = "repayment"
          /\ rows[i].op = "bulk" => rows[i].key = rows[i].member /\ ~Stored("bulk", rows[i].key)
          /\ rows[i].op = "repayment" /\ by # 0 => ~Stored("repayment", rows[i].key)
    /\ \A i, j \in DOMAIN rows : i # j =>
          rows[i].op = "bulk" /\ rows[j].op = "bulk" /\ rows[i].key # rows[j].key

LEMMA RowsAppended ==
    ASSUME FormsTyped, NEW by, NEW rows, Appends(by, rows)
    PROVE  /\ stored' \in Seq(StoredRow) /\ Len(stored') \in Nat /\ Len(stored) <= Len(stored')
           /\ DOMAIN stored \subseteq DOMAIN stored' /\ DOMAIN stored' = 1..Len(stored')
           /\ \A i \in DOMAIN stored : stored'[i] = stored[i]
           /\ \A i \in DOMAIN stored' \ DOMAIN stored :
                 i - Len(stored) \in DOMAIN rows /\ stored'[i] = rows[i - Len(stored)]
           /\ \A j \in DOMAIN rows : \E i \in DOMAIN stored' : stored'[i] = rows[j]
<1>1. stored \in Seq(StoredRow) /\ rows \in Seq(StoredRow) /\ stored' = stored \o rows
  BY DEF FormsTyped, Appends
<1>2. Len(stored) \in Nat /\ Len(rows) \in Nat /\ Len(stored') = Len(stored) + Len(rows)
      /\ DOMAIN stored = 1..Len(stored) /\ DOMAIN rows = 1..Len(rows)
      /\ DOMAIN stored' = 1..Len(stored') /\ stored' \in Seq(StoredRow)
  BY <1>1
<1>3. \A i \in DOMAIN stored : stored'[i] = stored[i]
  BY <1>1
<1>4. \A j \in DOMAIN rows : stored'[Len(stored) + j] = rows[j]
  BY <1>1
<1>5. \A i \in DOMAIN stored' \ DOMAIN stored :
          i - Len(stored) \in DOMAIN rows /\ i = Len(stored) + (i - Len(stored))
  BY <1>2
<1>6. \A j \in DOMAIN rows : Len(stored) + j \in DOMAIN stored'
  BY <1>2
<1>7. \A i \in DOMAIN stored' \ DOMAIN stored : stored'[i] = rows[i - Len(stored)]
  BY <1>4, <1>5
<1>8. DOMAIN stored \subseteq DOMAIN stored' /\ Len(stored) <= Len(stored') /\ Len(stored') \in Nat
  BY <1>2
<1>. QED
  BY <1>2, <1>3, <1>4, <1>5, <1>6, <1>7, <1>8

\* What was stored is stored.
LEMMA StoredStays ==
    ASSUME FormsTyped, NEW by, NEW rows, Appends(by, rows)
    PROVE  /\ \A op, key : Stored(op, key) => Stored(op, key)'
           /\ \A r : Served(r) => Served(r)'
<1>1. \A op, key : Stored(op, key) => Stored(op, key)'
  BY RowsAppended DEF Stored
<1>2. \A r : Served(r) => Served(r)'
  BY <1>1, RowsAppended DEF Served, Appends
<1>. QED
  BY <1>1, <1>2

LEMMA StoresKeepInv ==
    ASSUME FormsInv, NEW by, NEW rows, Appends(by, rows),
           \/ by = 0 /\ fate' = fate
           \/ /\ by \in DOMAIN sent /\ fate[by] = "inFlight"
              /\ \E outcome \in {"recorded", "refused", "linked"} :
                    /\ fate' = [fate EXCEPT ![by] = outcome]
                    /\ outcome = "recorded" => Served(by)'
                    /\ outcome = "linked" => sent[by].op = "repayment" /\ Served(by)'
              /\ \A i \in DOMAIN rows :
                    /\ rows[i].op = sent[by].op
                    /\ rows[i].op # "bulk" => fate'[by] = "recorded"
                    /\ rows[i].op = "repayment" => rows[i].key = sent[by].key /\ rows[i].file = sent[by].file
    PROVE  FormsInv'
<1> DEFINE n == Len(stored)
<1>1. UNCHANGED <<data, fresh, fetch, failed, area, tab, sent, pending, acknowledged, gaveUp, overtaken>>
  BY DEF Appends, cacheVars, historyVars
<1>2. /\ stored' \in Seq(StoredRow) /\ Len(stored') \in Nat /\ n <= Len(stored') /\ n \in Nat
      /\ DOMAIN stored \subseteq DOMAIN stored' /\ DOMAIN stored' = 1..Len(stored') /\ DOMAIN stored = 1..n
      /\ \A i \in DOMAIN stored : stored'[i] = stored[i]
      /\ \A i \in DOMAIN stored' \ DOMAIN stored : i - n \in DOMAIN rows /\ stored'[i] = rows[i - n]
  BY RowsAppended, RowTypes DEF FormsInv
<1> HIDE DEF n
<1>3. /\ fate' \in [1..MaxRequests -> {"unsent", "inFlight", "recorded", "refused", "linked"}]
      /\ \A q \in DOMAIN sent : fate'[q] # fate[q] =>
            q = by /\ fate[q] = "inFlight" /\ fate'[q] \in {"recorded", "refused", "linked"}
      /\ \A q \in DOMAIN sent : fate[q] # "inFlight" => fate'[q] = fate[q]
  <2>1. /\ fate \in [1..MaxRequests -> {"unsent", "inFlight", "recorded", "refused", "linked"}]
        /\ DOMAIN sent \subseteq 1..MaxRequests
    BY SentTypes, FormsAssumption DEF FormsInv, FormsTyped
  <2>2. CASE fate' = fate
    BY <2>1, <2>2
  <2>3. ASSUME by \in DOMAIN sent, fate[by] = "inFlight",
               NEW outcome \in {"recorded", "refused", "linked"}, fate' = [fate EXCEPT ![by] = outcome]
        PROVE  /\ fate' \in [1..MaxRequests -> {"unsent", "inFlight", "recorded", "refused", "linked"}]
               /\ \A q \in DOMAIN sent : IF q = by THEN fate'[q] = outcome ELSE fate'[q] = fate[q]
    BY <2>1, <2>3
  <2>. QED
    BY <2>2, <2>3
<1>4. by \in DOMAIN sent =>
          /\ fate'[by] \in {"recorded", "refused", "linked"} /\ by # 0
          /\ fate'[by] = "recorded" => Served(by)'
          /\ fate'[by] = "linked" => sent[by].op = "repayment" /\ Served(by)'
  <2>1. /\ fate \in [1..MaxRequests -> {"unsent", "inFlight", "recorded", "refused", "linked"}]
        /\ DOMAIN sent \subseteq 1..MaxRequests
    BY SentTypes, FormsAssumption DEF FormsInv, FormsTyped
  <2>2. by \in DOMAIN sent => by # 0
    BY <2>1
  <2>3. \A outcome : by \in DOMAIN sent /\ fate' = [fate EXCEPT ![by] = outcome] => fate'[by] = outcome
    BY <2>1
  <2>. QED
    BY <2>2, <2>3
<1>5. FormsTyped'
  BY <1>1, <1>2, <1>3 DEF FormsInv, FormsTyped
<1>6. OpsInv' /\ KeysInv' /\ FilesInv'
  BY <1>1 DEF FormsInv, OpsInv, KeysInv, FilesInv
<1>7. \A i \in DOMAIN stored : by # 0 => stored[i].by # by
  <2>1. \A i \in DOMAIN stored : stored[i].by # 0 => fate[stored[i].by] # "inFlight"
    BY DEF FormsInv, RowsInv, FromRequest
  <2>. QED
    BY <2>1
<1>8. RowsInv'
  <2>1. \A i \in DOMAIN stored : stored[i].by # 0 => FromRequest(i)'
    BY <1>1, <1>2, <1>3 DEF FormsInv, RowsInv, FromRequest
  <2>2. \A i \in DOMAIN stored' \ DOMAIN stored : stored'[i].by # 0 => FromRequest(i)'
    <3>1. SUFFICES ASSUME NEW i \in DOMAIN stored' \ DOMAIN stored, stored'[i].by # 0
                   PROVE  FromRequest(i)'
      OBVIOUS
    <3>2. i - n \in DOMAIN rows /\ stored'[i] = rows[i - n] /\ rows[i - n].by = by
      BY <1>2 DEF Appends
    <3>. QED
      BY <1>1, <1>4, <3>1, <3>2 DEF FromRequest
  <2>3. \A i \in DOMAIN stored' :
          /\ stored'[i].by # 0 => FromRequest(i)'
          /\ stored'[i].file # NoFile => stored'[i].by # 0 /\ stored'[i].op = "repayment"
          /\ stored'[i].op = "bulk" => stored'[i].key = stored'[i].member
    BY <1>2, <2>1, <2>2 DEF FormsInv, RowsInv, Appends
  <2>4. ASSUME NEW i \in DOMAIN stored, NEW j \in DOMAIN stored' \ DOMAIN stored,
               stored'[i].op = stored'[j].op
        PROVE  CASE stored'[i].op = "repayment" ->
                        stored'[i].by # 0 /\ stored'[j].by # 0 => stored'[i].key # stored'[j].key
                 [] stored'[i].op = "bulk" -> stored'[i].key # stored'[j].key
                 [] OTHER -> (stored'[i].by # 0 \/ stored'[j].by # 0) => stored'[i].by # stored'[j].by
    <3>1. j - n \in DOMAIN rows /\ stored'[j] = rows[j - n] /\ rows[j - n].by = by /\ stored'[i] = stored[i]
      BY <1>2 DEF Appends
    <3>. QED
      BY <1>7, <2>4, <3>1 DEF Appends, Stored
  <2>5. ASSUME NEW i \in DOMAIN stored' \ DOMAIN stored, NEW j \in DOMAIN stored' \ DOMAIN stored, i # j
        PROVE  stored'[i].op = "bulk" /\ stored'[i].key # stored'[j].key
    <3>1. /\ i - n \in DOMAIN rows /\ stored'[i] = rows[i - n]
          /\ j - n \in DOMAIN rows /\ stored'[j] = rows[j - n] /\ i - n # j - n
      BY <1>2, <2>5
    <3>. QED
      BY <3>1 DEF Appends
  <2>6. \A i, j \in DOMAIN stored' : i # j /\ stored'[i].op = stored'[j].op =>
          CASE stored'[i].op = "repayment" ->
                   stored'[i].by # 0 /\ stored'[j].by # 0 => stored'[i].key # stored'[j].key
            [] stored'[i].op = "bulk" -> stored'[i].key # stored'[j].key
            [] OTHER -> stored'[i].by # 0 => stored'[i].by # stored'[j].by
    <3>1. SUFFICES ASSUME NEW i \in DOMAIN stored', NEW j \in DOMAIN stored',
                          i # j, stored'[i].op = stored'[j].op
                   PROVE  CASE stored'[i].op = "repayment" ->
                                   stored'[i].by # 0 /\ stored'[j].by # 0 => stored'[i].key # stored'[j].key
                            [] stored'[i].op = "bulk" -> stored'[i].key # stored'[j].key
                            [] OTHER -> stored'[i].by # 0 => stored'[i].by # stored'[j].by
      OBVIOUS
    <3>2. CASE i \in DOMAIN stored /\ j \in DOMAIN stored
      BY <1>2, <3>1, <3>2 DEF FormsInv, RowsInv
    <3>3. CASE i \in DOMAIN stored /\ j \notin DOMAIN stored
      BY <2>4, <3>1, <3>3
    <3>4. CASE i \notin DOMAIN stored /\ j \in DOMAIN stored
      BY <2>4, <3>1, <3>4
    <3>5. CASE i \notin DOMAIN stored /\ j \notin DOMAIN stored
      BY <2>5, <3>1, <3>5
    <3>. QED
      BY <3>2, <3>3, <3>4, <3>5
  <2>. QED
    BY <2>3, <2>6 DEF RowsInv
<1>9. FateInv'
  <2>1. \A q \in DOMAIN sent : Served(q) => Served(q)'
    BY StoredStays DEF FormsInv
  <2>. QED
    BY <1>1, <1>3, <1>4, <2>1 DEF FormsInv, FateInv
<1>10. IntentInv'
  BY <1>1, <1>3 DEF FormsInv, FormsTyped, IntentInv
<1>11. AnswersInv'
  <2>1. \A r \in acknowledged : r \in DOMAIN sent /\ r # 0 /\ r # by
    BY SentTypes DEF FormsInv, FormsTyped, IntentInv
  <2>2. \A r \in acknowledged : \A m : RowsBefore(r, m) => RowsBefore(r, m)'
    <3>1. \A i \in DOMAIN stored' \ DOMAIN stored : stored'[i].by = by
      BY <1>2 DEF Appends
    <3>. QED
      BY <1>2, <2>1, <3>1 DEF RowsBefore
  <2>3. \A k \in Key : /\ fetch[k].stage = "read" => fetch[k].answer <= Len(stored')
                       /\ data[k] # NoData => data[k] <= Len(stored')
    <3>1. \A k \in Key : fetch[k].stage = "read" => fetch[k].answer \in Nat
      BY FetchStates DEF FormsInv, FormsTyped
    <3>2. \A k \in Key : data[k] # NoData => data[k] \in Nat
      BY DEF FormsInv, FormsTyped
    <3>. QED
      BY <1>2, <3>1, <3>2 DEF FormsInv, AnswersInv, n
  <2>. QED
    BY <1>1, <2>2, <2>3 DEF FormsInv, AnswersInv, Showing
<1>12. PageInv'
  <2>1. tab.allocation <= Len(stored')
    BY <1>2, RowTypes DEF FormsInv, PageInv, n
  <2>2. fetch[Detail].stage = "read" => 1..fetch[Detail].answer \subseteq DOMAIN stored
    <3>1. fetch[Detail].stage = "read" => fetch[Detail].answer \in Nat /\ fetch[Detail].answer <= n
      BY KeysOfForms, FetchStates DEF FormsInv, FormsTyped, AnswersInv, n
    <3>. QED
      BY <1>2, <3>1
  <2>. QED
    BY <1>1, <1>2, <1>3, <2>1, <2>2 DEF FormsInv, PageInv
<1>13. ToldInv'
  <2>1. 1..tab.allocation \subseteq DOMAIN stored
    BY <1>2, RowTypes DEF FormsInv, PageInv, n
  <2>2. \A op, key : Stored(op, key) => Stored(op, key)'
    BY StoredStays DEF FormsInv
  <2>. QED
    BY <1>1, <1>2, <1>3, <2>1, <2>2 DEF FormsInv, ToldInv
<1>. QED
  BY <1>5, <1>6, <1>8, <1>9, <1>10, <1>11, <1>12, <1>13 DEF FormsInv

\* What the server settles is a request under way.
LEMMA SettleKeepsInv ==
    ASSUME FormsInv, NEW r \in DOMAIN sent, NEW outcome \in {"recorded", "refused", "linked"},
           NEW rows, Settle(r, outcome, rows), Appends(r, rows),
           outcome = "recorded" => Served(r)',
           outcome = "linked" => sent[r].op = "repayment" /\ Served(r)',
           \A i \in DOMAIN rows :
              /\ rows[i].op = sent[r].op /\ (rows[i].op # "bulk" => outcome = "recorded")
              /\ rows[i].op = "repayment" => rows[i].key = sent[r].key /\ rows[i].file = sent[r].file
    PROVE  FormsInv'
<1>1. fate[r] = "inFlight" /\ fate' = [fate EXCEPT ![r] = outcome]
  BY DEF Settle
<1>2. fate'[r] = outcome
  BY <1>1, SentTypes, FormsAssumption DEF FormsInv, FormsTyped
<1>. QED
  BY <1>1, <1>2, StoresKeepInv

\* The server stores nothing, or one row that no other stands for.
LEMMA StoresNothing ==
    ASSUME NEW by, UNCHANGED <<cacheVars, area, tab, sent, pending, historyVars>>,
           stored' = stored \o <<>>
    PROVE  Appends(by, <<>>)
BY DEF Appends

LEMMA StoresOne ==
    ASSUME NEW row \in StoredRow,
           UNCHANGED <<cacheVars, area, tab, sent, pending, historyVars>>,
           stored' = stored \o <<row>>,
           row.file # NoFile => row.by # 0 /\ row.op = "repayment",
           row.op = "bulk" => row.key = row.member /\ ~Stored("bulk", row.key),
           row.op = "repayment" /\ row.by # 0 => ~Stored("repayment", row.key)
    PROVE  Appends(row.by, <<row>>)
<1>1. <<row>> \in Seq(StoredRow) /\ DOMAIN <<row>> = {1} /\ <<row>>[1] = row
  OBVIOUS
<1>. QED
  BY <1>1 DEF Appends

IsRow(row, op, key, member, file, by) ==
    /\ row \in StoredRow
    /\ row.op = op /\ row.key = key /\ row.member = member /\ row.file = file /\ row.by = by

LEMMA NewRowFields ==
    ASSUME NEW op \in Operation, NEW key \in Nat \cup Member, NEW member \in Member,
           NEW amount \in Nat, NEW file \in Nat, NEW by \in Nat
    PROVE  IsRow(NewRow(op, key, member, amount, file, by), op, key, member, file, by)
BY DEF IsRow, NewRow, StoredRow

\* A linked file is that of a repayment of the same page.
LEMMA LinkedIsRecorded ==
    ASSUME FormsInv, NEW r \in DOMAIN sent, sent[r].op = "repayment", Linked(sent[r].file)
    PROVE  Served(r)
<1>1. PICK i \in DOMAIN stored : stored[i].file = sent[r].file /\ sent[r].file # NoFile
  BY DEF Linked
<1>2. stored[i].by # 0 /\ stored[i].op = "repayment" /\ FromRequest(i)
  BY <1>1 DEF FormsInv, RowsInv
<1> DEFINE q == stored[i].by
<1>3. q \in DOMAIN sent /\ sent[q].op = "repayment" /\ stored[i].key = sent[q].key
      /\ sent[q].file = sent[r].file
  BY <1>1, <1>2 DEF FromRequest
<1> HIDE DEF q
<1>4. sent[q].visit = sent[r].visit
  BY <1>1, <1>3 DEF FormsInv, FilesInv
<1>5. sent[q].key = sent[r].key
  BY <1>3, <1>4 DEF FormsInv, KeysInv
<1>. QED
  BY <1>2, <1>3, <1>5 DEF Served, Stored

LEMMA ServeRepaymentKeepsInv ==
    ASSUME FormsInv, NEW r \in DOMAIN sent, ServeRepayment(r)
    PROVE  FormsInv'
<1> DEFINE amount == sent[r].items[Borrower]
           row == NewRow("repayment", sent[r].key, Borrower, amount, sent[r].file, r)
<1>1. sent[r].op = "repayment" /\ r \in Nat \ {0} /\ sent[r].key \in Nat /\ sent[r].file \in Nat
  BY SentTypes DEF ServeRepayment, FormsInv
<1>2. amount \in Nat
  <2>1. sent[r].items \in [Member -> 0..MaxAmount]
    BY SentTypes DEF FormsInv
  <2>. QED
    BY <2>1, MemberFinite, FormsAssumption
<1>10. "repayment" \in Operation /\ sent[r].key \in Nat \cup Member
  BY <1>1 DEF Operation
<1> HIDE DEF amount
<1>11. IsRow(row, "repayment", sent[r].key, Borrower, sent[r].file, r)
  BY <1>1, <1>2, <1>10, MemberFinite, NewRowFields
<1>3. /\ row \in StoredRow
      /\ row.op = "repayment" /\ row.key = sent[r].key /\ row.file = sent[r].file /\ row.by = r
  BY <1>11 DEF IsRow
<1> HIDE DEF row
<1>4. \/ Settle(r, "refused", <<>>)
      \/ Linked(sent[r].file) /\ Settle(r, "linked", <<>>)
      \/ Stored("repayment", sent[r].key) /\ Settle(r, "recorded", <<>>)
      \/ ~Stored("repayment", sent[r].key) /\ Settle(r, "recorded", <<row>>)
  BY DEF ServeRepayment, row, amount
<1>5. \A outcome : Settle(r, outcome, <<>>) => Appends(r, <<>>)
  BY StoresNothing DEF Settle, historyVars
<1>6. CASE Settle(r, "refused", <<>>)
  BY <1>5, <1>6, SettleKeepsInv
<1>7. CASE Linked(sent[r].file) /\ Settle(r, "linked", <<>>)
  <2>1. Served(r)'
    BY <1>1, <1>5, <1>7, LinkedIsRecorded, StoredStays DEF FormsInv
  <2>. QED
    BY <1>1, <1>5, <1>7, <2>1, SettleKeepsInv
<1>8. CASE Stored("repayment", sent[r].key) /\ Settle(r, "recorded", <<>>)
  <2>1. Served(r)
    BY <1>1, <1>8 DEF Served
  <2>2. Served(r)'
    BY <1>5, <1>8, <2>1, StoredStays DEF FormsInv
  <2>. QED
    BY <1>1, <1>5, <1>8, <2>2, SettleKeepsInv
<1>9. CASE ~Stored("repayment", sent[r].key) /\ Settle(r, "recorded", <<row>>)
  <2>1. Appends(r, <<row>>)
    BY <1>1, <1>3, <1>9, StoresOne DEF Settle
  <2>2. Served(r)'
    <3>1. \E i \in DOMAIN stored' : stored'[i] = row
      <4>1. 1 \in DOMAIN <<row>> /\ <<row>>[1] = row
        OBVIOUS
      <4>. QED
        BY <2>1, <4>1, RowsAppended DEF FormsInv
    <3>. QED
      BY <1>1, <1>3, <1>9, <3>1 DEF Served, Stored, Settle
  <2>3. \A i \in DOMAIN <<row>> : <<row>>[i] = row
    OBVIOUS
  <2>. QED
    BY <1>1, <1>3, <1>9, <2>1, <2>2, <2>3, SettleKeepsInv
<1>. QED
  BY <1>4, <1>6, <1>7, <1>8, <1>9

LEMMA ServeBulkKeepsInv ==
    ASSUME FormsInv, NEW r \in DOMAIN sent, ServeBulk(r)
    PROVE  FormsInv'
<1> DEFINE items == {m \in Member : sent[r].items[m] > 0}
<1>1. sent[r].op = "bulk" /\ r \in Nat \ {0}
  BY SentTypes DEF ServeBulk, FormsInv
<1>2. PICK n \in 0..Len(Roll) :
          LET served == items \cap {Roll[i] : i \in 1..n}
              new == SetToSeq({m \in served : ~Stored("bulk", KeyFor(r, m))})
          IN  Settle(r, IF served = items THEN "recorded" ELSE "refused",
                     [i \in DOMAIN new |-> NewRow("bulk", KeyFor(r, new[i]), new[i],
                                                  sent[r].items[new[i]], NoFile, r)])
  BY DEF ServeBulk
<1> DEFINE served == items \cap {Roll[i] : i \in 1..n}
           S == {m \in served : ~Stored("bulk", m)}
           new == SetToSeq(S)
           rows == [i \in DOMAIN new |-> NewRow("bulk", new[i], new[i], sent[r].items[new[i]], NoFile, r)]
           outcome == IF served = items THEN "recorded" ELSE "refused"
<1>3. \A m : KeyFor(r, m) = m
  BY <1>1 DEF KeyFor
<1>4. Settle(r, outcome, rows)
  <2>1. {m \in served : ~Stored("bulk", KeyFor(r, m))} = S
    BY <1>3
  <2>2. [i \in DOMAIN new |-> NewRow("bulk", KeyFor(r, new[i]), new[i], sent[r].items[new[i]], NoFile, r)] = rows
    BY <1>3
  <2>. QED
    BY <1>2, <2>1, <2>2
<1>5. S \subseteq Member /\ IsFiniteSet(S)
  BY MemberFinite, FS_Subset
<1>6. PICK k \in Nat :
          /\ new \in [1..k -> S] /\ IsInjective(new)
          /\ \A x \in S : \E i \in 1..k : new[i] = x
  BY <1>5, SetToSeqLists
<1>7. sent[r].items \in [Member -> Nat]
  <2>1. sent[r].items \in [Member -> 0..MaxAmount]
    BY SentTypes DEF FormsInv
  <2>. QED
    BY <2>1, FormsAssumption
<1>8. S \subseteq served /\ served \subseteq Member /\ served \subseteq items
      /\ (\A m \in S : ~Stored("bulk", m)) /\ (\A m \in served \ S : Stored("bulk", m))
  OBVIOUS
<1> HIDE DEF S, new
<1>9. DOMAIN rows = 1..k /\ \A i \in 1..k : new[i] \in Member /\ new[i] \in S
      /\ rows[i] = NewRow("bulk", new[i], new[i], sent[r].items[new[i]], NoFile, r)
  BY <1>5, <1>6
<1> HIDE DEF rows
<1>10. \A i \in 1..k : rows[i] \in StoredRow /\ rows[i].op = "bulk" /\ rows[i].key = new[i]
          /\ rows[i].member = new[i] /\ rows[i].file = NoFile /\ rows[i].by = r
  <2>1. SUFFICES ASSUME NEW i \in 1..k
                 PROVE  rows[i] \in StoredRow /\ rows[i].op = "bulk" /\ rows[i].key = new[i]
                        /\ rows[i].member = new[i] /\ rows[i].file = NoFile /\ rows[i].by = r
    OBVIOUS
  <2>2. new[i] \in Member /\ sent[r].items[new[i]] \in Nat
    BY <1>7, <1>9
  <2>3. "bulk" \in Operation /\ NoFile \in Nat
    BY DEF Operation, NoFile
  <2>4. new[i] \in Nat \cup Member
    BY <2>2
  <2>. QED
    <3>1. ASSUME NEW m \in Member, NEW amount \in Nat
          PROVE  IsRow(NewRow("bulk", m, m, amount, NoFile, r), "bulk", m, m, NoFile, r)
      BY <1>1, <2>3, NewRowFields
    <3>2. IsRow(rows[i], "bulk", new[i], new[i], NoFile, r)
      BY <1>9, <2>2, <3>1
    <3>. QED
      BY <3>2 DEF IsRow
<1>11. rows \in Seq(StoredRow)
  <2>1. rows = [i \in 1..k |-> rows[i]]
    BY <1>9 DEF rows
  <2>. QED
    BY <1>10, <2>1
<1>12. Appends(r, rows)
  <2>1. \A i, j \in 1..k : i # j => rows[i].key # rows[j].key
    BY <1>6, <1>10 DEF IsInjective
  <2>. QED
    BY <1>1, <1>4, <1>8, <1>9, <1>10, <1>11, <2>1 DEF Appends, Settle
<1>13. outcome = "recorded" => Served(r)'
  <2>1. SUFFICES ASSUME served = items, NEW m \in Member, sent[r].items[m] > 0
                 PROVE  Stored("bulk", m)'
    BY <1>1, <1>4 DEF Served, Settle
  <2>2. CASE m \in S
    <3>1. PICK i \in 1..k : new[i] = m
      BY <1>6, <2>2
    <3>2. PICK j \in DOMAIN stored' : stored'[j] = rows[i]
      BY <1>9, <1>12, RowsAppended DEF FormsInv
    <3>. QED
      BY <1>10, <3>1, <3>2 DEF Stored
  <2>3. CASE m \notin S
    <3>1. Stored("bulk", m)
      BY <1>8, <2>1, <2>3
    <3>. QED
      BY <1>12, <3>1, StoredStays DEF FormsInv
  <2>. QED
    BY <2>2, <2>3
<1>14. outcome \in {"recorded", "refused", "linked"} /\ outcome # "linked"
  OBVIOUS
<1> HIDE DEF outcome
<1>. QED
  BY <1>1, <1>4, <1>9, <1>10, <1>12, <1>13, <1>14, SettleKeepsInv

LEMMA ServeOtherKeepsInv ==
    ASSUME FormsInv, NEW r \in DOMAIN sent, ServeOther(r)
    PROVE  FormsInv'
<1> DEFINE row == NewRow(sent[r].op, NoKey, Borrower, 0, NoFile, r)
<1>1. sent[r].op \in Operation \ {"repayment", "bulk"} /\ r \in Nat \ {0}
  BY SentTypes DEF ServeOther, FormsInv
<1>6. 0 \in Nat /\ NoKey \in Nat \cup Member /\ NoFile \in Nat
  BY DEF NoKey, NoFile
<1>7. IsRow(row, sent[r].op, NoKey, Borrower, NoFile, r)
  BY <1>1, <1>6, MemberFinite, NewRowFields
<1>2. /\ row \in StoredRow
      /\ row.op = sent[r].op /\ row.file = NoFile /\ row.by = r
  BY <1>7 DEF IsRow
<1> HIDE DEF row
<1>3. Settle(r, "recorded", <<row>>) \/ Settle(r, "refused", <<>>)
  BY DEF ServeOther, row
<1>4. CASE Settle(r, "refused", <<>>)
  <2>1. Appends(r, <<>>)
    BY <1>4, StoresNothing DEF Settle, historyVars
  <2>. QED
    BY <1>4, <2>1, SettleKeepsInv
<1>5. CASE Settle(r, "recorded", <<row>>)
  <2>1. Appends(r, <<row>>)
    BY <1>1, <1>2, <1>5, StoresOne DEF Settle
  <2>2. Served(r)'
    <3>1. \E i \in DOMAIN stored' : stored'[i] = row
      <4>1. 1 \in DOMAIN <<row>> /\ <<row>>[1] = row
        OBVIOUS
      <4>. QED
        BY <2>1, <4>1, RowsAppended DEF FormsInv
    <3>. QED
      BY <1>1, <1>2, <1>5, <3>1 DEF Served, Settle
  <2>3. \A i \in DOMAIN <<row>> : <<row>>[i] = row
    OBVIOUS
  <2>. QED
    BY <1>1, <1>2, <1>5, <2>1, <2>2, <2>3, SettleKeepsInv
<1>. QED
  BY <1>3, <1>4, <1>5

LEMMA RecordElsewhereKeepsInv ==
    ASSUME FormsInv, RecordElsewhere
    PROVE  FormsInv'
<1>1. PICK op \in Operation \ {"application"} :
          /\ CASE area = "repay" -> op = "repayment" /\ Repaid(stored) < Debt
               [] area = "entry" -> op = "bulk" /\ ~Stored("bulk", Borrower)
               [] OTHER -> op \in Dialog[area] /\ Allowed(op)
          /\ stored' = Append(stored,
                NewRow(op, IF op = "bulk" THEN Borrower ELSE NoKey, Borrower, 1, NoFile, 0))
  BY DEF RecordElsewhere
<1> DEFINE key == IF op = "bulk" THEN Borrower ELSE NoKey
           row == NewRow(op, key, Borrower, 1, NoFile, 0)
<1>7. 0 \in Nat /\ 1 \in Nat /\ key \in Nat \cup Member /\ NoFile \in Nat
  BY MemberFinite DEF NoKey, NoFile
<1>8. op \in Operation
  OBVIOUS
<1>9. IsRow(row, op, key, Borrower, NoFile, 0)
  BY <1>7, <1>8, MemberFinite, NewRowFields
<1>2. /\ row \in StoredRow
      /\ row.op = op /\ row.file = NoFile /\ row.by = 0 /\ row.member = Borrower
      /\ op = "bulk" => row.key = Borrower
  BY <1>9 DEF IsRow
<1>3. op = "bulk" => ~Stored("bulk", Borrower)
  BY <1>1 DEF Dialog, FormsInv, FormsTyped
<1>4. stored' = stored \o <<row>>
  BY <1>1, <1>2 DEF FormsInv, FormsTyped
<1> HIDE DEF row
<1>5. Appends(0, <<row>>)
  BY <1>2, <1>3, <1>4, StoresOne DEF RecordElsewhere
<1>6. fate' = fate
  BY DEF RecordElsewhere
<1>. QED
  BY <1>5, <1>6, StoresKeepInv

-----------------------------------------------------------------------------
(* Answers.                                                                *)

LEMMA SeenLast ==
    ASSUME FormsTyped, NEW n \in Nat, n <= Len(stored)
    PROVE  /\ LastRepayment(SubSeq(stored, 1, n)) \in 0..n
           /\ \A i \in 1..n : stored[i].op = "repayment" => i <= LastRepayment(SubSeq(stored, 1, n))
<1>1. /\ DOMAIN SubSeq(stored, 1, n) = 1..n
      /\ \A i \in 1..n : SubSeq(stored, 1, n)[i] = stored[i]
  BY DEF FormsTyped
<1>. QED
  BY <1>1, LastRepaymentIsLast

\* The handler goes on with what it finds: the awaited answer, or the cache.
Went(t, refetch, told, n) ==
    [t EXCEPT !.refetch = refetch, !.step = "done", !.told = told, !.allocation = n]

GoesOn(u, t, refetch, told, n) ==
    /\ u \in TabState
    /\ u.refetch = refetch /\ u.step = "done" /\ u.told = told /\ u.allocation = n
    /\ u.screen = t.screen /\ u.visit = t.visit /\ u.intent = t.intent /\ u.op = t.op
    /\ u.key = t.key /\ u.file = t.file /\ u.files = t.files
    /\ u.loaded = t.loaded /\ u.answered = t.answered

LEMMA GoingOn ==
    ASSUME NEW t \in TabState, NEW told, NEW refetch, NEW n,
           told \subseteq {"already", "success"},
           refetch \in {"none", "awaited", "cut off"}, n \in Nat
    PROVE  GoesOn(Went(t, refetch, told, n), t, refetch, told, n)
BY DEF TabState, Went, GoesOn

LEMMA CutOffFields ==
    ASSUME FormsInv
    PROVE  /\ tab.refetch = "awaited" => \E n \in 0..Len(stored) :
                 GoesOn(CutOff(tab), tab, "cut off", tab.told \cup {"success"}, n)
           /\ tab.refetch # "awaited" => CutOff(tab) = tab
<1>1. tab \in TabState /\ tab.told \cup {"success"} \subseteq {"already", "success"}
  BY DEF FormsInv, FormsTyped, TabState
<1>2. CASE tab.refetch # "awaited"
  BY <1>1, <1>2 DEF CutOff
<1>3. CASE tab.refetch = "awaited"
  <2> DEFINE n == LastRepayment(Seen(Detail))
             told == tab.told \cup {"success"}
  <2>1. n \in 0..Len(stored)
    <3>1. CASE data[Detail] = NoData
      <4>1. Seen(Detail) = <<>> /\ DOMAIN <<>> = 1..0
        BY <3>1 DEF Seen
      <4>2. n \in 0..0
        BY <4>1, LastRepaymentIsLast
      <4>. QED
        BY <4>2, RowTypes DEF FormsInv
    <3>2. CASE data[Detail] # NoData
      <4>1. data[Detail] \in Nat /\ data[Detail] <= Len(stored)
        BY <3>2, KeysOfForms DEF FormsInv, FormsTyped, AnswersInv
      <4>2. n \in 0..data[Detail]
        BY <3>2, <4>1, SeenLast DEF Seen, FormsInv
      <4>. QED
        BY <4>1, <4>2, RowTypes DEF FormsInv
    <3>. QED
      BY <3>1, <3>2
  <2>2. n \in Nat
    BY <2>1, RowTypes DEF FormsInv
  <2>3. CutOff(tab) = Went(tab, "cut off", told, n)
    BY <1>1, <1>3 DEF CutOff, TabState, Went
  <2>4. GoesOn(Went(tab, "cut off", told, n), tab, "cut off", told, n)
    <3> HIDE DEF n
    <3>. QED
      BY <1>1, <2>2, GoingOn
  <2>5. GoesOn(CutOff(tab), tab, "cut off", told, n)
    <3> HIDE DEF n, told
    <3>. QED
      BY <2>3, <2>4
  <2>. QED
    BY <1>3, <2>1, <2>5
<1>. QED
  BY <1>2, <1>3

LEMMA ArrivedFields ==
    ASSUME FormsInv, fetch[Detail].stage = "read"
    PROVE  /\ tab.refetch = "awaited" => \E n \in 0..Len(stored) :
                 /\ GoesOn(Arrived(tab), tab, "none", tab.told \cup {"success"}, n)
                 /\ \A i \in 1..fetch[Detail].answer : stored[i].op = "repayment" => i <= n
           /\ tab.refetch # "awaited" => Arrived(tab) = tab
<1>1. tab \in TabState /\ tab.told \cup {"success"} \subseteq {"already", "success"}
  BY DEF FormsInv, FormsTyped, TabState
<1>2. CASE tab.refetch # "awaited"
  BY <1>1, <1>2 DEF Arrived
<1>3. CASE tab.refetch = "awaited"
  <2> DEFINE last == fetch[Detail].answer
             n == LastRepayment(SubSeq(stored, 1, last))
             told == tab.told \cup {"success"}
  <2>1. last \in Nat /\ last <= Len(stored)
    BY KeysOfForms, FetchStates DEF FormsInv, FormsTyped, AnswersInv
  <2>2. n \in 0..last /\ \A i \in 1..last : stored[i].op = "repayment" => i <= n
    BY <2>1, SeenLast DEF FormsInv
  <2>3. n \in 0..Len(stored) /\ n \in Nat
    BY <2>1, <2>2, RowTypes DEF FormsInv
  <2>4. Arrived(tab) = Went(tab, "none", told, n)
    BY <1>1, <1>3 DEF Arrived, TabState, Went
  <2>5. GoesOn(Went(tab, "none", told, n), tab, "none", told, n)
    <3> HIDE DEF n
    <3>. QED
      BY <1>1, <2>3, GoingOn
  <2>6. GoesOn(Arrived(tab), tab, "none", told, n)
    <3> HIDE DEF n, told
    <3>. QED
      BY <2>4, <2>5
  <2>. QED
    BY <1>3, <2>2, <2>3, <2>6
<1>. QED
  BY <1>2, <1>3

-----------------------------------------------------------------------------
(* What comes of answers and of queries.                                   *)

LEMMA SentOps ==
    ASSUME FormsInv
    PROVE  \A r \in DOMAIN sent : /\ sent[r].op \in OpsOf(area)
                                  /\ sent[r].op = "repayment" <=> area = "repay"
                                  /\ sent[r].op = "bulk" <=> area = "entry"
                                  /\ sent[r].op = "application" <=> area = "request"
<1>1. area \in Area /\ \A r \in DOMAIN sent : sent[r].op \in OpsOf(area)
  BY DEF FormsInv, FormsTyped, OpsInv
<1>. QED
  BY <1>1, OpsOfAreas

LEMMA GiveUpKeepsInv ==
    ASSUME FormsInv, NEW r \in DOMAIN sent, GiveUp(r)
    PROVE  FormsInv'
<1>1. UNCHANGED <<data, fresh, fetch, failed, area, tab, sent, fate, stored, acknowledged, overtaken>>
      /\ pending' = pending \ {r} /\ gaveUp' = gaveUp \cup {r}
  BY DEF GiveUp, cacheVars, serverVars
<1>2. FormsTyped' /\ OpsInv' /\ KeysInv' /\ FilesInv'
  BY <1>1 DEF FormsInv, FormsTyped, OpsInv, KeysInv, FilesInv
<1>3. RowsInv' /\ FateInv'
  BY <1>1, ServerSame DEF FormsInv
<1>4. AnswersInv' /\ PageInv' /\ ToldInv'
  BY <1>1 DEF FormsInv, AnswersInv, Showing, RowsBefore, PageInv, ToldInv, Stored
<1>5. IntentInv'
  BY <1>1 DEF FormsInv, IntentInv
<1>. QED
  BY <1>2, <1>3, <1>4, <1>5 DEF FormsInv

LEMMA RefusalKeepsInv ==
    ASSUME FormsInv, NEW r \in DOMAIN sent, Refusal(r)
    PROVE  FormsInv'
<1>1. UNCHANGED <<data, fresh, fetch, failed, area, sent, fate, stored, acknowledged, gaveUp, overtaken>>
      /\ pending' = pending \ {r} /\ fate[r] \in {"refused", "linked"}
  BY DEF Refusal, cacheVars, serverVars
<1>2. tab \in TabState
  BY DEF FormsInv, FormsTyped
<1>3. PICK news \in SUBSET {"already"} :
         /\ tab' = [tab EXCEPT !.told = @ \cup news]
         /\ news # {} => fate[r] = "linked" /\ Here(r)
  <2>1. CASE Here(r)
    BY <2>1, <1>2 DEF Refusal, Told, NewsOf
  <2>2. CASE ~Here(r)
    <3>1. tab' = tab /\ tab = [tab EXCEPT !.told = @ \cup {}]
      BY <2>2, <1>2 DEF Refusal, Told, TabState
    <3>. QED
      BY <3>1
  <2>. QED
    BY <2>1, <2>2
<1>4. /\ tab' \in TabState /\ tab'.told = tab.told \cup news
      /\ tab'.screen = tab.screen /\ tab'.visit = tab.visit /\ tab'.intent = tab.intent
      /\ tab'.step = tab.step /\ tab'.op = tab.op /\ tab'.key = tab.key /\ tab'.file = tab.file
      /\ tab'.files = tab.files /\ tab'.loaded = tab.loaded /\ tab'.answered = tab.answered
      /\ tab'.refetch = tab.refetch /\ tab'.allocation = tab.allocation
  BY <1>2, <1>3 DEF TabState
<1>5. FormsTyped' /\ OpsInv'
  BY <1>1, <1>4 DEF FormsInv, FormsTyped, OpsInv
<1>6. KeysInv' /\ FilesInv'
  BY <1>1, <1>4 DEF FormsInv, KeysInv, FilesInv
<1>7. RowsInv' /\ FateInv'
  BY <1>1, ServerSame DEF FormsInv
<1>8. AnswersInv' /\ PageInv'
  BY <1>1, <1>4 DEF FormsInv, AnswersInv, Showing, RowsBefore, PageInv
<1>9. IntentInv'
  BY <1>1, <1>4 DEF FormsInv, IntentInv
<1>10. ToldInv'
  <2>1. CASE news = {}
    BY <1>1, <1>4, <2>1 DEF FormsInv, ToldInv, Stored
  <2>2. CASE news # {}
    <3>1. /\ sent[r].op = "repayment" /\ Stored("repayment", sent[r].key)
          /\ area = "repay" /\ tab.screen = "form" /\ tab.key = sent[r].key /\ tab.key # 0
      <4>1. sent[r].op = "repayment" /\ Served(r) /\ Here(r)
        BY <1>3, <2>2 DEF FormsInv, FateInv
      <4>2. area = "repay"
        BY <4>1, SentOps
      <4>. QED
        BY <4>1, <4>2 DEF Served, Here, FormsInv, KeysInv
    <3>2. tab'.told \subseteq tab.told \cup {"already"}
      BY <1>4
    <3>. QED
      BY <1>1, <1>4, <3>1, <3>2 DEF FormsInv, ToldInv, Stored
  <2>. QED
    BY <2>1, <2>2
<1>. QED
  BY <1>5, <1>6, <1>7, <1>8, <1>9, <1>10 DEF FormsInv

LEMMA ReadKeepsInv ==
    ASSUME FormsInv, NEW k \in {Detail, List}, Read(k, Len(stored)), UNCHANGED formVars
    PROVE  FormsInv'
<1>1. UNCHANGED <<data, fresh, failed, area, tab, sent, fate, stored, pending, acknowledged, gaveUp, overtaken>>
  BY DEF Read, formVars, serverVars, historyVars
<1>2. k \in Key /\ fetch \in [Key -> FetchState] /\ fetch[k] = Sent(NoData) /\ k \notin fresh
  BY KeysOfForms, FetchStates DEF Read, FormsInv, FormsTyped, AnswersInv
<1>3. /\ fetch'[k].stage = "read" /\ fetch'[k].answer = Len(stored) /\ fetch'[k] \in FetchState
      /\ \A j \in Key \ {k} : fetch'[j] = fetch[j]
      /\ fetch' \in [Key -> FetchState]
  <2>1. Len(stored) \in Nat
    BY RowTypes DEF FormsInv
  <2>2. [fetch[k] EXCEPT !.stage = "read", !.answer = Len(stored)]
           = [stage |-> "read", answer |-> Len(stored)]
    <3>1. fetch[k] = [stage |-> "sent", answer |-> NoData]
      BY <1>2 DEF Sent
    <3>2. ASSUME NEW n, NEW f, f = [stage |-> "sent", answer |-> NoData],
                 NEW g, g = [f EXCEPT !.stage = "read", !.answer = n]
          PROVE  g = [stage |-> "read", answer |-> n]
      BY <3>2
    <3>. QED
      BY <3>1, <3>2
  <2> DEFINE f == [stage |-> "read", answer |-> Len(stored)]
  <2>3. f \in FetchState /\ f.stage = "read" /\ f.answer = Len(stored)
    BY <2>1 DEF FetchState
  <2>4. fetch' = [fetch EXCEPT ![k] = f]
    BY <1>2, <2>2 DEF Read, Sent
  <2> HIDE DEF f
  <2>. QED
    BY <1>2, <2>3, <2>4
<1>4. FormsTyped' /\ OpsInv' /\ KeysInv' /\ FilesInv'
  BY <1>1, <1>3 DEF FormsInv, FormsTyped, OpsInv, KeysInv, FilesInv
<1>5. RowsInv' /\ FateInv'
  BY <1>1, ServerSame DEF FormsInv
<1>6. IntentInv' /\ ToldInv'
  BY <1>1 DEF FormsInv, IntentInv, ToldInv, Stored
<1>7. \A r : RowsBefore(r, Len(stored))
  BY RowTypes DEF FormsInv, RowsBefore
<1>8. AnswersInv'
  <2>1. Len(stored) \in Nat
    BY RowTypes DEF FormsInv
  <2>2. \A j \in Key : /\ fetch'[j].stage = "read" => fetch'[j].answer <= Len(stored)
                       /\ j \in fresh => fetch'[j] = Idle
    BY <1>2, <1>3, <2>1 DEF FormsInv, AnswersInv
  <2>3. \A r : Showing(r) \subseteq Key
    BY KeysOfForms DEF Showing
  <2>4. \A r \in acknowledged : \A j \in Showing(r) \ overtaken :
            /\ j \in fresh => RowsBefore(r, data[j])
            /\ fetch'[j].stage = "read" => RowsBefore(r, fetch'[j].answer)
    BY <1>2, <1>3, <1>7, <2>3 DEF FormsInv, AnswersInv
  <2>. QED
    BY <1>1, <2>2, <2>4 DEF FormsInv, AnswersInv, Showing, RowsBefore
<1>9. PageInv'
  <2>1. ASSUME area = "repay", tab.refetch = "awaited"
        PROVE \E i \in 1..Len(stored) : stored[i].op = "repayment" /\ stored[i].key = tab.key
    <3>1. /\ tab.answered \in DOMAIN sent /\ sent[tab.answered].visit = tab.visit
          /\ fate[tab.answered] = "recorded" /\ tab.screen # "list"
      BY <2>1 DEF FormsInv, PageInv
    <3>2. sent[tab.answered].op = "repayment"
      BY <2>1, <3>1, SentOps
    <3>3. Served(tab.answered)
      BY <3>1 DEF FormsInv, FateInv
    <3>4. tab.key = sent[tab.answered].key
      BY <3>1, <3>2 DEF FormsInv, KeysInv
    <3>. QED
      BY <3>2, <3>3, <3>4, RowTypes DEF Served, Stored, FormsInv
  <2>2. CASE k = Detail
    BY <1>1, <1>3, <2>1, <2>2 DEF FormsInv, PageInv
  <2>3. CASE k # Detail
    BY <1>1, <1>3, <2>3, KeysOfForms DEF FormsInv, PageInv
  <2>. QED
    BY <2>2, <2>3
<1>. QED
  BY <1>4, <1>5, <1>6, <1>8, <1>9 DEF FormsInv

LEMMA MinuteKeepsInv ==
    ASSUME FormsInv, Minute
    PROVE  FormsInv'
<1>1. UNCHANGED <<data, fetch, failed, area, tab, sent, fate, stored, pending, acknowledged, gaveUp, overtaken>>
      /\ fresh' = {}
  BY DEF Minute, Age, formVars, serverVars, historyVars
<1>2. FormsTyped' /\ OpsInv' /\ KeysInv' /\ FilesInv'
  BY <1>1 DEF FormsInv, FormsTyped, OpsInv, KeysInv, FilesInv
<1>3. RowsInv' /\ FateInv'
  BY <1>1, ServerSame DEF FormsInv
<1>4. AnswersInv' /\ PageInv' /\ ToldInv' /\ IntentInv'
  BY <1>1 DEF FormsInv, AnswersInv, Showing, RowsBefore, PageInv, ToldInv, Stored, IntentInv
<1>. QED
  BY <1>2, <1>3, <1>4 DEF FormsInv

\* What rendering does to a page: it may throw.
Rendering(u, t, hasData) ==
    /\ u \in TabState
    /\ \/ u.screen = t.screen
       \/ area = "repay" /\ t.screen = "form" /\ u.screen = "broken"
    /\ area = "repay" /\ u.screen = "form" => u.loaded = hasData
    /\ u.visit = t.visit /\ u.intent = t.intent /\ u.step = t.step /\ u.op = t.op /\ u.key = t.key
    /\ u.file = t.file /\ u.files = t.files /\ u.loaded = t.loaded /\ u.answered = t.answered
    /\ u.told = t.told /\ u.refetch = t.refetch /\ u.allocation = t.allocation

LEMMA Renderings ==
    ASSUME NEW t \in TabState, NEW hasData \in BOOLEAN
    PROVE  Rendering(AfterRender(t, hasData), t, hasData)
<1>1. CASE area = "repay" /\ t.screen = "form" /\ t.loaded # hasData
  BY <1>1 DEF TabState, Rendering, AfterRender
<1>2. CASE ~(area = "repay" /\ t.screen = "form" /\ t.loaded # hasData)
  BY <1>2 DEF TabState, Rendering, AfterRender
<1>. QED
  BY <1>1, <1>2

\* A page that is rendered anew has the fields that its visit had.
Renders ==
    /\ tab' \in TabState
    /\ tab'.screen = tab.screen \/ (area = "repay" /\ tab.screen = "form" /\ tab'.screen = "broken")
    /\ tab'.visit = tab.visit /\ tab'.intent = tab.intent /\ tab'.op = tab.op
    /\ tab'.key = tab.key /\ tab'.file = tab.file /\ tab'.files = tab.files
    /\ tab'.loaded = tab.loaded /\ tab'.answered = tab.answered
    /\ tab'.step = tab.step \/ area = "repay"

LEMMA RendersKeepsPart ==
    ASSUME FormsInv, Renders,
           UNCHANGED <<area, sent, fate, stored, pending, acknowledged, gaveUp>>
    PROVE  OpsInv' /\ KeysInv' /\ FilesInv' /\ RowsInv' /\ FateInv' /\ IntentInv'
<1>1. OpsInv' /\ FilesInv'
  BY DEF FormsInv, OpsInv, FilesInv, Renders
<1>2. KeysInv'
  BY DEF FormsInv, KeysInv, Renders
<1>3. RowsInv' /\ FateInv'
  BY ServerSame DEF FormsInv
<1>4. IntentInv'
  <2>1. area = "repay" => \A r \in DOMAIN sent : sent[r].op = "repayment"
    BY SentOps
  <2>. QED
    BY <2>1 DEF FormsInv, IntentInv, Renders
<1>. QED
  BY <1>1, <1>2, <1>3, <1>4

LEMMA StoreKeepsInv ==
    ASSUME FormsInv, NEW k \in {Detail, List}, Store(k),
           tab' = AfterRender(IF k = Detail THEN Arrived(tab) ELSE tab, k = Detail \/ tab.loaded),
           UNCHANGED <<area, sent, pending, serverVars, historyVars>>
    PROVE  FormsInv'
<1> DEFINE t == IF k = Detail THEN Arrived(tab) ELSE tab
           hasData == k = Detail \/ tab.loaded
<1>1. UNCHANGED <<area, sent, fate, stored, pending, acknowledged, gaveUp, overtaken>>
  BY DEF serverVars, historyVars
<1>2. /\ k \in Key /\ fetch[k].stage = "read" /\ fetch[k].answer \in Nat
      /\ fetch[k].answer <= Len(stored) /\ NoData \notin Nat
  BY KeysOfForms, FetchStates, FormsAssumption DEF Store, FormsInv, FormsTyped, AnswersInv
<1>3. /\ data' \in [Key -> Nat \cup {NoData}] /\ data'[k] = fetch[k].answer
      /\ \A j \in Key \ {k} : data'[j] = data[j] /\ fetch'[j] = fetch[j]
      /\ fetch' \in [Key -> FetchState] /\ fetch'[k] = Idle
      /\ fresh' = fresh \cup {k} /\ failed' = failed \ {k}
  BY <1>2, FetchStates DEF Store, FormsInv, FormsTyped
<1>4. tab \in TabState /\ hasData \in BOOLEAN
  BY DEF FormsInv, FormsTyped, TabState
<1>5. t = tab \/ (k = Detail /\ tab.refetch = "awaited" /\ \E n \in 0..Len(stored) :
                    /\ GoesOn(t, tab, "none", tab.told \cup {"success"}, n)
                    /\ \A i \in 1..fetch[Detail].answer : stored[i].op = "repayment" => i <= n)
  BY <1>2, ArrivedFields
<1>6. t \in TabState
  BY <1>4, <1>5 DEF GoesOn
<1>7. Rendering(tab', t, hasData)
  <2> HIDE DEF t, hasData
  <2>. QED
    BY <1>4, <1>6, Renderings DEF t, hasData
<1>8. tab.refetch = "awaited" => area = "repay" /\ tab.screen # "list"
  BY DEF FormsInv, ToldInv, PageInv
<1>9. Renders
  BY <1>5, <1>7, <1>8 DEF Renders, Rendering, GoesOn
<1>10. OpsInv' /\ KeysInv' /\ FilesInv' /\ RowsInv' /\ FateInv' /\ IntentInv'
  BY <1>1, <1>9, RendersKeepsPart
<1>11. FormsTyped'
  BY <1>1, <1>2, <1>3, <1>9 DEF FormsInv, FormsTyped, Renders
<1>12. AnswersInv'
  <2>1. \A j \in Key : /\ fetch'[j].stage = "read" => fetch'[j].answer <= Len(stored)
                       /\ data'[j] # NoData => data'[j] <= Len(stored)
                       /\ j \in fresh' => fetch'[j] = Idle /\ j \notin failed' /\ data'[j] # NoData
    BY <1>2, <1>3, FetchStates DEF FormsInv, AnswersInv
  <2>2. \A r \in acknowledged : \A j \in Showing(r) \ overtaken :
            /\ j \in fresh' => RowsBefore(r, data'[j])
            /\ fetch'[j].stage = "read" => RowsBefore(r, fetch'[j].answer)
    <3>1. \A r : Showing(r) \subseteq Key
      BY KeysOfForms DEF Showing
    <3>. QED
      BY <1>2, <1>3, <3>1, FetchStates DEF FormsInv, AnswersInv
  <2>. QED
    BY <1>1, <2>1, <2>2 DEF AnswersInv, Showing, RowsBefore
<1>13. PageInv'
  <2>1. tab'.allocation <= Len(stored)
    <3>1. tab.allocation \in Nat /\ tab.allocation <= Len(stored)
      BY RowTypes DEF FormsInv, PageInv
    <3>. QED
      BY <1>5, <1>7, <3>1 DEF GoesOn, Rendering
  <2>2. area = "repay" /\ tab'.screen = "form" =>
            (tab'.loaded <=> data'[Detail] # NoData /\ Detail \notin failed')
    <3>1. CASE k = Detail
      BY <1>2, <1>3, <1>7, <3>1, ZenonT(40) DEF Rendering
    <3>2. CASE k # Detail
      <4>1. tab'.screen = tab.screen \/ tab'.screen = "broken"
        BY <1>9 DEF Renders
      <4>. QED
        BY <1>3, <1>9, <3>2, <4>1, KeysOfForms DEF Renders, FormsInv, PageInv
    <3>. QED
      BY <3>1, <3>2
  <2>3. area = "repay" /\ tab'.screen = "form" =>
            \A r \in DOMAIN sent : sent[r].visit = tab'.visit => data'[Detail] # NoData
    BY <1>2, <1>3, <1>9, KeysOfForms DEF Renders, FormsInv, PageInv
  <2>4. area = "repay" /\ tab'.refetch = "awaited" =>
              /\ tab'.screen # "list" /\ tab'.answered \in DOMAIN sent
              /\ sent[tab'.answered].visit = tab'.visit /\ fate[tab'.answered] = "recorded"
              /\ fetch'[Detail].stage # "read" \/
                    \E i \in 1..fetch'[Detail].answer :
                       stored[i].op = "repayment" /\ stored[i].key = tab'.key
    <3>1. CASE k = Detail
      BY <1>3, <1>5, <1>7, <1>9, <3>1, FetchStates DEF GoesOn, Rendering, Renders, FormsInv, PageInv
    <3>2. CASE k # Detail
      <4>1. t = tab /\ tab'.refetch = tab.refetch /\ fetch'[Detail] = fetch[Detail]
        BY <1>3, <1>7, <3>2, KeysOfForms DEF Rendering
      <4>. QED
        BY <1>9, <4>1 DEF Renders, FormsInv, PageInv
    <3>. QED
      BY <3>1, <3>2
  <2>. QED
    BY <1>1, <2>1, <2>2, <2>3, <2>4 DEF PageInv
<1>14. ToldInv'
  <2>1. CASE t = tab
    BY <1>1, <1>7, <1>9, <2>1 DEF Rendering, Renders, FormsInv, ToldInv, Stored
  <2>2. CASE t # tab
    <3>1. PICK n \in 0..Len(stored) :
              /\ GoesOn(t, tab, "none", tab.told \cup {"success"}, n)
              /\ \A i \in 1..fetch[Detail].answer : stored[i].op = "repayment" => i <= n
      BY <1>5, <2>2
    <3>2. tab.refetch = "awaited" /\ area = "repay" /\ k = Detail
      BY <1>5, <1>8, <2>2
    <3>3. /\ tab.answered \in DOMAIN sent /\ sent[tab.answered].visit = tab.visit
          /\ fate[tab.answered] = "recorded" /\ tab.screen # "list"
          /\ \E i \in 1..fetch[Detail].answer : stored[i].op = "repayment" /\ stored[i].key = tab.key
      BY <1>2, <3>2 DEF FormsInv, PageInv
    <3>4. \E i \in 1..n : stored[i].key = tab.key
      BY <1>2, <3>1, <3>3
    <3>5. tab'.told = tab.told \cup {"success"} /\ tab'.allocation = n /\ tab'.refetch = "none"
          /\ tab'.screen # "list"
      BY <1>7, <1>9, <3>1, <3>3 DEF Rendering, GoesOn, Renders
    <3>. QED
      BY <1>1, <1>9, <3>2, <3>3, <3>4, <3>5 DEF Renders, FormsInv, ToldInv, Stored
  <2>. QED
    BY <2>1, <2>2
<1>. QED
  BY <1>10, <1>11, <1>12, <1>13, <1>14 DEF FormsInv

LEMMA FailKeepsInv ==
    ASSUME FormsInv, NEW k \in {Detail, List}, Fail(k),
           tab' = AfterRender(tab, tab.loaded /\ k # Detail),
           UNCHANGED <<area, sent, pending, serverVars, historyVars>>
    PROVE  FormsInv'
<1> DEFINE hasData == tab.loaded /\ k # Detail
<1>1. UNCHANGED <<area, sent, fate, stored, pending, acknowledged, gaveUp, overtaken>>
  BY DEF serverVars, historyVars
<1>2. /\ k \in Key /\ k \notin fresh /\ UNCHANGED <<data, fresh>> /\ failed' = failed \cup {k}
      /\ fetch' \in [Key -> FetchState] /\ fetch'[k] = Idle
      /\ \A j \in Key \ {k} : fetch'[j] = fetch[j]
  BY KeysOfForms, FetchStates DEF Fail, FormsInv, FormsTyped, AnswersInv
<1>3. tab \in TabState /\ hasData \in BOOLEAN
  BY DEF FormsInv, FormsTyped, TabState
<1>4. Rendering(tab', tab, hasData)
  <2> HIDE DEF hasData
  <2>. QED
    BY <1>3, Renderings DEF hasData
<1>5. Renders
  BY <1>4 DEF Renders, Rendering
<1>6. OpsInv' /\ KeysInv' /\ FilesInv' /\ RowsInv' /\ FateInv' /\ IntentInv'
  BY <1>1, <1>5, RendersKeepsPart
<1>7. FormsTyped'
  BY <1>1, <1>2, <1>5 DEF FormsInv, FormsTyped, Renders
<1>8. AnswersInv'
  <2>1. \A r : Showing(r) \subseteq Key
    BY KeysOfForms DEF Showing
  <2>2. \A j \in Key : fetch'[j].stage = "read" => fetch'[j] = fetch[j]
    BY <1>2, FetchStates
  <2>3. \A j \in Key : j \in fresh => fetch'[j] = Idle /\ j \notin failed'
    BY <1>2 DEF FormsInv, AnswersInv
  <2>4. \A j \in Key : /\ fetch'[j].stage = "read" => fetch'[j].answer <= Len(stored)
                       /\ data[j] # NoData => data[j] <= Len(stored)
                       /\ j \in fresh => data[j] # NoData
    BY <2>2 DEF FormsInv, AnswersInv
  <2>5. \A r \in acknowledged : \A j \in Showing(r) \ overtaken :
            /\ j \in fresh => RowsBefore(r, data[j])
            /\ fetch'[j].stage = "read" => RowsBefore(r, fetch'[j].answer)
    BY <2>1, <2>2 DEF FormsInv, AnswersInv
  <2>. QED
    BY <1>1, <1>2, <2>3, <2>4, <2>5 DEF AnswersInv, Showing, RowsBefore
<1>9. PageInv'
  <2>1. area = "repay" /\ tab'.screen = "form" =>
            (tab'.loaded <=> data'[Detail] # NoData /\ Detail \notin failed')
    <3>1. CASE k = Detail
      BY <1>2, <1>4, <3>1 DEF Rendering
    <3>2. CASE k # Detail
      <4>1. tab'.screen = tab.screen \/ tab'.screen = "broken"
        BY <1>5 DEF Renders
      <4>. QED
        BY <1>2, <1>5, <3>2, <4>1, KeysOfForms DEF Renders, FormsInv, PageInv
    <3>. QED
      BY <3>1, <3>2
  <2>2. fetch'[Detail].stage = "read" => fetch'[Detail] = fetch[Detail]
    BY <1>2, KeysOfForms, FetchStates
  <2>. QED
    BY <1>1, <1>2, <1>4, <2>1, <2>2 DEF Rendering, FormsInv, PageInv
<1>10. ToldInv'
  BY <1>1, <1>4 DEF Rendering, FormsInv, ToldInv, Stored
<1>. QED
  BY <1>6, <1>7, <1>8, <1>9, <1>10 DEF FormsInv

-----------------------------------------------------------------------------
(* What the handlers do on success.                                        *)

LEMMA Invalidations ==
    ASSUME NEW r, sent[r].op \in Operation
    PROVE  /\ InvalidatedBy(sent[r].op) = Showing(r) /\ Showing(r) \subseteq Key
           /\ RefetchedAfter(sent[r].op) \subseteq Showing(r)
           /\ sent[r].op = "repayment" => Detail \in RefetchedAfter(sent[r].op)
BY KeysOfForms
   DEF InvalidatedBy, RepaymentInvalidates, BatchInvalidates, ReversalInvalidates,
       DecisionInvalidates, ServicingInvalidates, Showing, RefetchedAfter, Operation, Dialog, Area

\* What is invalidated is fetched again, unless it goes on being fetched.
LEMMA SuccessFetches ==
    ASSUME FormsInv, NEW r \in DOMAIN sent, Success(r)
    PROVE  /\ fetch' \in [Key -> FetchState]
           /\ \A k \in Key : fetch'[k] = fetch[k] \/ fetch'[k] = Sent(NoData)
           /\ fresh' = fresh \ Showing(r)
           /\ \A k \in fresh' : fetch'[k] = Idle
           /\ overtaken \subseteq overtaken'
           /\ \A k \in Showing(r) : fetch'[k] = fetch[k] /\ fetch[k].stage = "read" => k \in overtaken'
           /\ sent[r].op = "repayment" /\ data[Detail] # NoData => fetch'[Detail] = Sent(NoData)
<1> DEFINE op == sent[r].op
           left == IF AfterSuccess(r).screen = "list" THEN ShownBy("list") ELSE Active
           anew == (left \cap InvalidatedBy(op)) \cup RefetchedAfter(op)
           fetched == FetchAnew(anew, NoData)
<1>1. /\ fresh' = fresh \ InvalidatedBy(op)
      /\ fetch' = [k \in Key |-> IF k \in left \ fresh' /\ fetched[k] = Idle
                                 THEN Sent(NoData) ELSE fetched[k]]
      /\ overtaken' = overtaken \cup
              {k \in InvalidatedBy(op) : fetch[k] # Idle /\ fetch'[k] = fetch[k] /\ fetch[k] # Sent(NoData)}
  BY DEF Success
<1>2. op \in Operation
  BY SentTypes DEF FormsInv
<1>3. InvalidatedBy(op) = Showing(r) /\ Showing(r) \subseteq Key /\ anew \subseteq Showing(r)
      /\ (op = "repayment" => Detail \in anew)
  BY <1>2, Invalidations
<1>4. fetch \in [Key -> FetchState] /\ fresh \subseteq Key /\ \A k \in fresh : fetch[k] = Idle
  BY DEF FormsInv, FormsTyped, AnswersInv
<1> HIDE DEF left, anew
<1>5. \A k \in Key : fetched[k] = IF k \in anew /\ (data[k] # NoData \/ fetch[k] = Idle)
                                  THEN Sent(NoData) ELSE fetch[k]
  BY DEF FetchAnew
<1> HIDE DEF fetched, op
<1>6. \A k \in Key : fetched[k] \in {fetch[k], Sent(NoData)}
  BY <1>5
<1>7. \A k \in Key : fetch'[k] = IF k \in left \ fresh' /\ fetched[k] = Idle
                                 THEN Sent(NoData) ELSE fetched[k]
  BY <1>1
<1>8. \A k \in Key : fetch'[k] \in {fetch[k], Sent(NoData)}
  BY <1>6, <1>7
<1>9. fetch' \in [Key -> FetchState]
  <2>1. fetch' = [k \in Key |-> fetch'[k]]
    BY <1>1
  <2>2. \A k \in Key : fetch'[k] \in FetchState
    BY <1>4, <1>8, FetchStates
  <2>. QED
    BY <2>1, <2>2
<1>10. ASSUME NEW k \in fresh' PROVE fetch'[k] = Idle
  <2>1. k \in fresh /\ k \in Key /\ k \notin anew
    BY <1>1, <1>3, <1>4
  <2>2. fetched[k] = fetch[k]
    BY <1>5, <2>1
  <2>. QED
    BY <1>4, <1>7, <2>1, <2>2
<1>11. ASSUME op = "repayment", data[Detail] # NoData PROVE fetch'[Detail] = Sent(NoData)
  <2>1. fetched[Detail] = Sent(NoData)
    BY <1>3, <1>5, <1>11, KeysOfForms
  <2>. QED
    BY <1>7, <2>1, KeysOfForms, FetchStates
<1>12. \A k \in Showing(r) : fetch'[k] = fetch[k] /\ fetch[k].stage = "read" => k \in overtaken'
  BY <1>1, <1>3, FetchStates
<1>. QED
  BY <1>1, <1>3, <1>8, <1>9, <1>10, <1>11, <1>12 DEF op

LEMMA ClosedFields ==
    ASSUME tab \in TabState, NEW r \in Nat, NEW t, t = Closed(r) \/ t = [Closed(r) EXCEPT !.screen = "list"]
    PROVE  /\ t \in TabState /\ t.step = "edit" /\ t.op = "none" /\ t.told = {"success"} /\ t.answered = r
           /\ t.visit = tab.visit /\ t.intent = tab.intent /\ t.key = tab.key /\ t.file = tab.file
           /\ t.files = tab.files /\ t.loaded = tab.loaded /\ t.refetch = tab.refetch
           /\ t.allocation = tab.allocation
           /\ t = Closed(r) => t.screen = tab.screen
           /\ t = [Closed(r) EXCEPT !.screen = "list"] => t.screen = "list"
<1>1. CASE t = Closed(r)
  BY <1>1 DEF Closed, TabState
<1>2. CASE t = [Closed(r) EXCEPT !.screen = "list"]
  BY <1>2, ZenonT(40) DEF Closed, TabState
<1>. QED
  BY <1>1, <1>2

Awaits(c, r) == [c EXCEPT !.refetch = "awaited", !.answered = r]

LEMMA AwaitedFields ==
    ASSUME NEW c \in TabState, NEW r \in Nat, NEW t, t = Awaits(c, r)
    PROVE  /\ t \in TabState /\ t.refetch = "awaited" /\ t.answered = r
           /\ t.told = c.told /\ t.allocation = c.allocation /\ t.screen = c.screen
           /\ t.visit = c.visit /\ t.intent = c.intent /\ t.op = c.op /\ t.key = c.key
           /\ t.file = c.file /\ t.files = c.files /\ t.loaded = c.loaded
BY DEF TabState, Awaits

\* The page after the answer, whichever page it is.
Answered(r) ==
    /\ tab' \in TabState
    /\ tab'.visit = tab.visit /\ tab'.intent = tab.intent /\ tab'.key = tab.key
    /\ tab'.file = tab.file /\ tab'.files = tab.files /\ tab'.loaded = tab.loaded
    /\ tab'.op \in {tab.op, "none"}
    /\ tab'.screen = tab.screen \/ (tab'.screen = "list" /\ area \in {"entry", "request"})
    /\ tab'.allocation <= Len(stored)
    /\ area = "repay" =>
          \/ /\ tab'.refetch = "awaited" /\ tab'.answered = r /\ Here(r)
             /\ tab'.told \subseteq tab.told \cup {"success"}
          \/ /\ tab'.refetch = "cut off" /\ tab.refetch = "awaited" /\ tab'.answered = tab.answered
             /\ tab'.told \subseteq tab.told \cup {"success"}
          \/ tab' = tab /\ tab.refetch # "awaited"
    /\ area # "repay" =>
          /\ tab'.refetch = tab.refetch
          /\ \/ tab'.told = {"success"} /\ tab'.answered = r /\ tab'.step = "edit"
                /\ (area \in {"entry", "request"} => tab'.screen = "list")
             \/ tab' = tab /\ ~Here(r) /\ area \notin {"entry", "request"}

LEMMA SuccessTab ==
    ASSUME FormsInv, NEW r \in DOMAIN sent, tab' = AfterSuccess(r)
    PROVE  Answered(r)
<1>1. tab \in TabState /\ r \in Nat /\ sent[r].op \in Operation /\ tab.allocation <= Len(stored)
  BY SentTypes DEF FormsInv, FormsTyped, PageInv
<1>2. CASE sent[r].op = "repayment"
  <2>1. area = "repay" /\ tab' = AfterRepayment(r)
    BY <1>2, SentOps DEF AfterSuccess
  <2> DEFINE c == CutOff(tab)
  <2>2. \/ /\ tab.refetch = "awaited"
           /\ \E n \in 0..Len(stored) : GoesOn(c, tab, "cut off", tab.told \cup {"success"}, n)
        \/ tab.refetch # "awaited" /\ c = tab
    BY CutOffFields
  <2>3. Len(stored) \in Nat
    BY RowTypes DEF FormsInv
  <2>4. /\ c \in TabState /\ c.told \subseteq tab.told \cup {"success"} /\ c.allocation <= Len(stored)
        /\ c.screen = tab.screen /\ c.visit = tab.visit /\ c.intent = tab.intent /\ c.op = tab.op
        /\ c.key = tab.key /\ c.file = tab.file /\ c.files = tab.files /\ c.loaded = tab.loaded
        /\ c.answered = tab.answered
        /\ tab.refetch = "awaited" => c.refetch = "cut off"
        /\ tab.refetch # "awaited" => c = tab
    <3>1. CASE tab.refetch = "awaited"
      <4>1. PICK n \in 0..Len(stored) : GoesOn(c, tab, "cut off", tab.told \cup {"success"}, n)
        BY <2>2, <3>1
      <4> HIDE DEF c
      <4>2. c \in TabState /\ c.told = tab.told \cup {"success"} /\ c.allocation = n /\ c.refetch = "cut off"
        BY <4>1 DEF GoesOn
      <4>3. n <= Len(stored)
        BY <2>3
      <4>4. c.allocation <= Len(stored)
        BY <4>2, <4>3
      <4>. QED
        BY <3>1, <4>1, <4>2, <4>4 DEF GoesOn
    <3>2. CASE tab.refetch # "awaited"
      <4>1. c = tab
        BY <2>2, <3>2
      <4> HIDE DEF c
      <4>. QED
        BY <1>1, <3>2, <4>1
    <3>. QED
      BY <3>1, <3>2
  <2>5. CASE Here(r)
    <3>1. tab' = Awaits(c, r)
      BY <2>1, <2>5 DEF AfterRepayment, Awaits
    <3> HIDE DEF c
    <3>2. /\ tab' \in TabState /\ tab'.refetch = "awaited" /\ tab'.answered = r
          /\ tab'.told = c.told /\ tab'.allocation = c.allocation /\ tab'.screen = c.screen
          /\ tab'.visit = c.visit /\ tab'.intent = c.intent /\ tab'.op = c.op /\ tab'.key = c.key
          /\ tab'.file = c.file /\ tab'.files = c.files /\ tab'.loaded = c.loaded
      <4>1. c \in TabState /\ r \in Nat
        BY <1>1, <2>4
      <4>. QED
        BY <3>1, <4>1, AwaitedFields
    <3>. QED
      BY <2>1, <2>4, <2>5, <3>2 DEF Answered
  <2>6. CASE ~Here(r)
    <3>1. tab' = c
      BY <2>1, <2>6 DEF AfterRepayment
    <3> HIDE DEF c
    <3>. QED
      BY <2>1, <2>4, <3>1 DEF Answered
  <2>. QED
    BY <2>5, <2>6
<1>3. CASE sent[r].op \in {"bulk", "application"}
  <2>1. area \in {"entry", "request"} /\ tab' = [Closed(r) EXCEPT !.screen = "list"]
    BY <1>3, SentOps DEF AfterSuccess, AfterBatch, AfterApplication
  <2>2. /\ tab' \in TabState /\ tab'.step = "edit" /\ tab'.op = "none" /\ tab'.told = {"success"}
        /\ tab'.answered = r /\ tab'.visit = tab.visit /\ tab'.intent = tab.intent
        /\ tab'.key = tab.key /\ tab'.file = tab.file /\ tab'.files = tab.files
        /\ tab'.loaded = tab.loaded /\ tab'.refetch = tab.refetch
        /\ tab'.allocation = tab.allocation /\ tab'.screen = "list"
    BY <1>1, <2>1, ClosedFields
  <2>. QED
    BY <1>1, <2>1, <2>2 DEF Answered
<1>4. CASE sent[r].op \notin {"repayment", "bulk", "application"}
  <2>1. area \notin {"repay", "entry", "request"} /\ tab' = (IF Here(r) THEN Closed(r) ELSE tab)
    <3>1. sent[r].op \in {"reversal", "approve", "reject", "waiver", "reschedule"}
      BY <1>1, <1>4 DEF Operation, Dialog, Area
    <3>. QED
      BY <1>4, <3>1, SentOps DEF AfterSuccess, AfterReversal, AfterDecision, AfterServicing
  <2>2. CASE Here(r)
    <3>1. /\ tab' \in TabState /\ tab'.step = "edit" /\ tab'.op = "none" /\ tab'.told = {"success"}
          /\ tab'.answered = r /\ tab'.visit = tab.visit /\ tab'.intent = tab.intent
          /\ tab'.key = tab.key /\ tab'.file = tab.file /\ tab'.files = tab.files
          /\ tab'.loaded = tab.loaded /\ tab'.refetch = tab.refetch
          /\ tab'.allocation = tab.allocation /\ tab'.screen = tab.screen
      BY <1>1, <2>1, <2>2, ClosedFields
    <3>. QED
      BY <1>1, <2>1, <3>1 DEF Answered
  <2>3. CASE ~Here(r)
    BY <1>1, <2>1, <2>3 DEF Answered
  <2>. QED
    BY <2>2, <2>3
<1>. QED
  BY <1>2, <1>3, <1>4

LEMMA SuccessKeepsInv ==
    ASSUME FormsInv, NEW r \in DOMAIN sent, Success(r)
    PROVE  FormsInv'
<1>1. UNCHANGED <<data, failed, area, sent, fate, stored, gaveUp>>
      /\ pending' = pending \ {r} /\ acknowledged' = acknowledged \cup {r} /\ fate[r] = "recorded"
  BY DEF Success, serverVars
<1>2. Answered(r)
  BY SuccessTab DEF Success
<1>3. FormsTyped'
  <2>1. fetch' \in [Key -> FetchState] /\ fresh' \subseteq Key
    BY SuccessFetches DEF FormsInv, FormsTyped
  <2>. QED
    BY <1>1, <1>2, <2>1 DEF FormsInv, FormsTyped, Answered
<1>4. OpsInv'
  BY <1>1, <1>2 DEF FormsInv, OpsInv, Answered
<1>5. KeysInv' /\ FilesInv'
  <2>1. KeysInv'
    <3>1. tab'.visit = tab.visit /\ tab'.key = tab.key
          /\ (tab'.screen # "list" => tab.screen # "list")
      BY <1>2 DEF Answered
    <3>. QED
      BY <1>1, <3>1 DEF FormsInv, KeysInv
  <2>2. FilesInv'
    BY <1>1, <1>2 DEF FormsInv, FilesInv, Answered
  <2>. QED
    BY <2>1, <2>2
<1>6. RowsInv' /\ FateInv'
  BY <1>1, ServerSame DEF FormsInv
<1>7. AnswersInv'
  <2>1. /\ \A k \in Key : fetch'[k].stage = "read" => fetch'[k] = fetch[k]
        /\ fresh' = fresh \ Showing(r) /\ \A k \in fresh' : fetch'[k] = Idle
        /\ overtaken \subseteq overtaken'
        /\ \A k \in Showing(r) : fetch'[k] = fetch[k] /\ fetch[k].stage = "read" => k \in overtaken'
    BY SuccessFetches, FetchStates
  <2>2. \A q \in DOMAIN sent : Showing(q) \subseteq Key
    BY KeysOfForms DEF Showing
  <2>3. \A k \in Key : /\ fetch'[k].stage = "read" => fetch'[k].answer <= Len(stored)
                       /\ data[k] # NoData => data[k] <= Len(stored)
                       /\ k \in fresh' => fetch'[k] = Idle /\ k \notin failed /\ data[k] # NoData
    BY <2>1 DEF FormsInv, AnswersInv
  <2>4. \A q \in acknowledged : \A k \in Showing(q) \ overtaken' :
            /\ k \in fresh' => RowsBefore(q, data[k])
            /\ fetch'[k].stage = "read" => RowsBefore(q, fetch'[k].answer)
    <3>1. acknowledged \subseteq DOMAIN sent
      BY DEF FormsInv, FormsTyped
    <3>. QED
      BY <2>1, <2>2, <3>1 DEF FormsInv, AnswersInv
  <2>5. \A k \in Showing(r) \ overtaken' : k \notin fresh' /\ fetch'[k].stage # "read"
    BY <2>1, <2>2
  <2>. QED
    BY <1>1, <2>3, <2>4, <2>5 DEF AnswersInv, Showing, RowsBefore
<1>8. IntentInv'
  <2>1. \A q \in acknowledged' : sent[q].intent = tab'.intent /\ sent[q].op \notin {"repayment", "bulk"} =>
            tab'.screen = "list" \/ (tab'.step = "edit" /\ sent[q].op # "application")
    <3> SUFFICES ASSUME NEW q \in acknowledged', sent[q].intent = tab'.intent,
                        sent[q].op \notin {"repayment", "bulk"}
                 PROVE  tab'.screen = "list" \/ (tab'.step = "edit" /\ sent[q].op # "application")
      OBVIOUS
    <3>1. q \in DOMAIN sent
      BY <1>1 DEF FormsInv, FormsTyped
    <3>2. area # "repay" /\ (sent[q].op = "application" <=> area = "request")
          /\ (sent[r].op = "bulk" <=> area = "entry")
      BY <3>1, SentOps
    <3>3. area # "entry"
      BY <3>1, SentOps
    <3>4. CASE tab'.told = {"success"} /\ tab'.step = "edit"
      BY <1>2, <3>2, <3>3, <3>4 DEF Answered, FormsInv, IntentInv
    <3>5. CASE tab' = tab /\ ~Here(r) /\ area \notin {"entry", "request"}
      <4>1. CASE q = r
        <5>1. sent[r].visit = tab.visit /\ tab.screen # "form"
          BY <3>1, <3>5, <4>1 DEF FormsInv, IntentInv, Here
        <5>2. tab.screen \in {"list", "broken"} /\ tab.screen # "broken"
          BY <3>2, <5>1 DEF FormsInv, FormsTyped, TabState, OpsInv
        <5>. QED
          BY <3>5, <5>2
      <4>2. CASE q # r
        BY <1>1, <3>1, <3>5, <4>2 DEF FormsInv, IntentInv
      <4>. QED
        BY <4>1, <4>2
    <3>. QED
      BY <1>2, <3>2, <3>4, <3>5 DEF Answered
  <2>2. tab'.screen # "list" => tab'.intent # 0
    BY <1>2 DEF Answered, FormsInv, IntentInv
  <2>. QED
    BY <1>1, <1>2, <2>1, <2>2, ZenonT(40) DEF Answered, FormsInv, IntentInv
<1>9. PageInv'
  <2>1. ASSUME area = "repay", tab'.refetch = "awaited"
        PROVE  /\ tab'.screen # "list" /\ tab'.answered = r /\ sent[r].visit = tab'.visit
               /\ fetch'[Detail].stage # "read"
    <3>1. Here(r) /\ tab'.answered = r
      BY <1>2, <2>1 DEF Answered
    <3>2. data[Detail] # NoData
      BY <2>1, <3>1 DEF Here, FormsInv, PageInv
    <3>3. fetch'[Detail] = Sent(NoData)
      BY <2>1, <3>2, SentOps, SuccessFetches
    <3>. QED
      BY <1>2, <2>1, <3>1, <3>3, FetchStates DEF Here, Answered
  <2>2. area = "repay" => tab'.screen = tab.screen
    BY <1>2 DEF Answered
  <2>. QED
    BY <1>1, <1>2, <2>1, <2>2 DEF Answered, FormsInv, PageInv
<1>10. ToldInv'
  <2>1. CASE area = "repay"
    <3>1. CASE tab'.refetch = "awaited" /\ tab'.answered = r /\ Here(r)
               /\ tab'.told \subseteq tab.told \cup {"success"}
      BY <1>1, <1>2, <2>1, <3>1 DEF Answered, Here, FormsInv, ToldInv, Stored
    <3>2. CASE tab'.refetch = "cut off" /\ tab.refetch = "awaited" /\ tab'.answered = tab.answered
               /\ tab'.told \subseteq tab.told \cup {"success"}
      BY <1>1, <1>2, <2>1, <3>2 DEF Answered, FormsInv, ToldInv, PageInv, Stored
    <3>3. CASE tab' = tab /\ tab.refetch # "awaited"
      BY <1>1, <2>1, <3>3 DEF FormsInv, ToldInv, Stored
    <3>. QED
      BY <1>2, <2>1, <3>1, <3>2, <3>3 DEF Answered
  <2>2. CASE area # "repay"
    BY <1>1, <1>2, <2>2 DEF Answered, FormsInv, ToldInv, Stored
  <2>. QED
    BY <2>1, <2>2
<1>. QED
  BY <1>3, <1>4, <1>5, <1>6, <1>7, <1>8, <1>9, <1>10 DEF FormsInv

-----------------------------------------------------------------------------
(* The forms keep their invariant.                                         *)

LEMMA BlankFormIs ==
    /\ BlankForm \in TabState
    /\ BlankForm.screen = "list" /\ BlankForm.visit = 0 /\ BlankForm.intent = 0 /\ BlankForm.op = "none"
    /\ BlankForm.key = 0 /\ BlankForm.file = NoFile /\ BlankForm.files = 0 /\ BlankForm.told = {}
    /\ BlankForm.refetch = "none" /\ BlankForm.allocation = 0
<1>1. [m \in Member |-> 0] \in [Member -> 0..MaxAmount]
  BY FormsAssumption
<1>. QED
  BY <1>1 DEF BlankForm, TabState, NoFile

LEMMA FormsStart ==
    ASSUME FormsInit
    PROVE  FormsInv
<1>1. /\ sent = <<>> /\ stored = <<>> /\ DOMAIN sent = {} /\ DOMAIN stored = {}
      /\ Len(sent) = 0 /\ Len(stored) = 0
      /\ pending = {} /\ acknowledged = {} /\ gaveUp = {}
      /\ fate = [r \in 1..MaxRequests |-> "unsent"]
      /\ area \in Area \ {"admin"} /\ tab = BlankForm
      /\ data = [k \in Key |-> NoData] /\ fresh = {} /\ failed = {}
  BY DEF FormsInit, NothingRecorded
<1>2. fetch \in [Key -> FetchState] /\ \A k \in Key : fetch[k].stage # "read"
  BY FetchStates DEF FormsInit
<1>3. FormsTyped
  BY <1>1, <1>2, BlankFormIs, FormsAssumption DEF FormsTyped
<1>4. OpsInv /\ KeysInv /\ FilesInv /\ RowsInv /\ FateInv
  BY <1>1, BlankFormIs DEF OpsInv, KeysInv, FilesInv, NoFile, RowsInv, FateInv
<1>5. IntentInv /\ AnswersInv
  BY <1>1, <1>2, BlankFormIs DEF IntentInv, AnswersInv
<1>6. PageInv /\ ToldInv
  BY <1>1, BlankFormIs DEF PageInv, ToldInv
<1>. QED
  BY <1>3, <1>4, <1>5, <1>6 DEF FormsInv

LEMMA FormsNextKeepsInv ==
    ASSUME FormsInv, FormsNext
    PROVE  FormsInv'
<1>1. CASE \/ TypeRepayment \/ TypeRow \/ TypeApplication
           \/ SelectFile \/ FinishUpload \/ RemoveFile \/ ReviewBatch \/ ReviewApplication
           \/ OpenReversal \/ OpenDecision \/ OpenServicing \/ Back
  BY <1>1, EditingSteps, EditsKeepInv
<1>2. CASE ShowList \/ OpenForm \/ OpenByAddress \/ Refocus
  BY <1>2, PageSteps
<1>3. CASE Minute
  BY <1>3, MinuteKeepsInv
<1>4. CASE \/ SubmitRepayment \/ SubmitBatch \/ SubmitApplication
           \/ ConfirmReversal \/ ConfirmApproval \/ ConfirmRejection \/ ConfirmWaiver \/ ConfirmReschedule
  BY <1>4, SubmitSteps
<1>5. CASE RecordElsewhere
  BY <1>5, RecordElsewhereKeepsInv
<1>6. ASSUME NEW r \in DOMAIN sent,
             ServeRepayment(r) \/ ServeBulk(r) \/ ServeOther(r) \/ Success(r) \/ Refusal(r) \/ GiveUp(r)
      PROVE  FormsInv'
  BY <1>6, ServeRepaymentKeepsInv, ServeBulkKeepsInv, ServeOtherKeepsInv, SuccessKeepsInv,
     RefusalKeepsInv, GiveUpKeepsInv
<1>7. ASSUME NEW k \in {Detail, List}, Answer(k) \/ Lose(k) \/ RetryQuery(k)
      PROVE  FormsInv'
  <2>1. CASE RetryQuery(k)
    BY <2>1, PageSteps
  <2>2. CASE Answer(k)
    BY <2>2, ReadKeepsInv, StoreKeepsInv DEF Answer
  <2>3. CASE Lose(k)
    <3>1. CASE TryAgain(k, NoData) /\ overtaken' = overtaken \ {k}
               /\ UNCHANGED <<area, tab, sent, pending, serverVars, acknowledged, gaveUp>>
      <4>1. fetch'[k].stage = "sent"
        BY <3>1, KeysOfForms, FetchStates DEF TryAgain, FormsInv, FormsTyped
      <4>. QED
        BY <2>3, <4>1, PageSteps
    <3>2. CASE Fail(k) /\ tab' = AfterRender(tab, tab.loaded /\ k # Detail)
               /\ UNCHANGED <<area, sent, pending, serverVars, historyVars>>
      BY <3>2, FailKeepsInv
    <3>. QED
      BY <2>3, <3>1, <3>2 DEF Lose
  <2>. QED
    BY <1>7, <2>1, <2>2, <2>3
<1>. QED
  BY <1>1, <1>2, <1>3, <1>4, <1>5, <1>6, <1>7 DEF FormsNext

LEMMA FormsStutterKeepsInv ==
    ASSUME FormsInv, UNCHANGED formsVars
    PROVE  FormsInv'
<1>1. UNCHANGED <<data, fresh, fetch, failed, area, tab, sent, fate, stored, pending,
                  acknowledged, gaveUp, overtaken>>
  BY DEF formsVars, formVars, cacheVars, serverVars, historyVars
<1>2. FormsTyped' /\ OpsInv' /\ KeysInv' /\ FilesInv'
  BY <1>1 DEF FormsInv, FormsTyped, OpsInv, KeysInv, FilesInv
<1>3. RowsInv' /\ FateInv'
  BY <1>1, ServerSame DEF FormsInv
<1>4. AnswersInv' /\ PageInv' /\ ToldInv' /\ IntentInv'
  BY <1>1 DEF FormsInv, AnswersInv, Showing, RowsBefore, PageInv, ToldInv, Stored, IntentInv
<1>. QED
  BY <1>2, <1>3, <1>4 DEF FormsInv
-----------------------------------------------------------------------------
(* The support pages.                                                      *)

AskState == [tenant : TenantId \cup {NoTenantId}, case : {g.case : g \in GateEntry}]

PageFetch == {Idle} \cup [stage : {"sent", "read"}, answer : AskState]

\* What a page asks under a key is about the tenant of the key.
AskFor(k, ask) == k[1] # "evidence" => ask.tenant = k[3]

PagesTyped ==
    /\ gate \in StoredGate /\ open \in Page \cup {NoPage}
    /\ field \in TenantId \cup {NoTenantId} /\ submitted \in TenantId \cup {NoTenantId}
    /\ data \in [Key -> AskState \cup {NoData}] /\ fetch \in [Key -> PageFetch]

\* An answer is cached after it was logged, under the key that it was asked for.
LoggedInv ==
    \A k \in SupportKey :
        /\ data[k] # NoData => AskFor(k, data[k]) /\ [key |-> k, ask |-> data[k]] \in accessLog
        /\ fetch[k] # Idle => AskFor(k, fetch[k].answer)
        /\ fetch[k].stage = "read" => [key |-> k, ask |-> fetch[k].answer] \in accessLog

\* What an entry g in the gate asks under a key.
AskUnder(k, ask, g) == ask.case = g.case /\ (k[1] = "evidence" => ask.tenant = g.tenant)

\* What is cached or on its way was asked by the present entry, or was carried over.
OfSession(k, ask) == AskUnder(k, ask, gate) \/ [key |-> k, ask |-> ask] \in carried

SessionInv ==
    gate # NoGate => \A k \in SupportKey :
        /\ data[k] # NoData => OfSession(k, data[k])
        /\ fetch[k] # Idle => OfSession(k, fetch[k].answer)

LEMMA SentAsks ==
    ASSUME NEW ask \in AskState
    PROVE  /\ Sent(ask) \in PageFetch /\ Sent(ask).stage = "sent" /\ Sent(ask).answer = ask
           /\ Sent(ask) # Idle /\ Idle \in PageFetch /\ Idle.stage = "idle"
BY DEF Sent, Idle, PageFetch

\* What an enabled page asks: its key, and the tenant of the key.
LEMMA PageAsks ==
    ASSUME NEW p \in Page \cup {NoPage}, NEW f \in TenantId \cup {NoTenantId},
           NEW s \in TenantId \cup {NoTenantId}, NEW g \in StoredGate, Enabled(p, s, g)
    PROVE  /\ KeyOf(p, f, s, g) \in SupportKey /\ KeyOf(p, f, s, g) \in Key
           /\ Ask(p, f, s, g) \in AskState
           /\ AskFor(KeyOf(p, f, s, g), Ask(p, f, s, g)) /\ AskUnder(KeyOf(p, f, s, g), Ask(p, f, s, g), g)
           /\ p.of = "evidence" => Ask(p, f, s, g) = [tenant |-> g.tenant, case |-> g.case]
                                   /\ KeyOf(p, f, s, g)[1] = "evidence"
           /\ p.of # "evidence" => KeyOf(p, f, s, g)[1] # "evidence" /\ KeyOf(p, f, s, g)[3] = TenantOf(p, f, s, g)
<1>1. p \in Page /\ g \in GateEntry /\ g.tenant \in TenantId /\ (p.of = "trace" => s \in TenantId)
  BY SupportPagesAssumption DEF Enabled, StoredGate
<1>2. CASE p.of = "evidence"
  <2>1. p.what \in FileId
    BY <1>1, <1>2 DEF Page
  <2>2. KeyOf(p, f, s, g) = <<"evidence", p.what>> /\ TenantOf(p, f, s, g) = g.tenant
    BY <1>2 DEF KeyOf, TenantOf
  <2>3. KeyOf(p, f, s, g) \in SupportKey /\ KeyOf(p, f, s, g)[1] = "evidence"
    BY <2>1, <2>2 DEF SupportKey
  <2>. QED
    BY <1>1, <1>2, <2>2, <2>3, SupportPagesAssumption DEF Ask, AskState, AskFor, AskUnder
<1>3. CASE p.of # "evidence"
  <2> DEFINE t == TenantOf(p, f, s, g)
  <2>1. KeyOf(p, f, s, g) = <<p.of, p.what, t>>
    BY <1>3 DEF KeyOf
  <2>2. \/ p.of = "trace" /\ p.what \in Entity /\ t \in TenantId
        \/ p.of = "auditLog" /\ p.what = NoPage /\ t \in TenantId
        \/ p.of = "smsFailures" /\ p.what = NoPage /\ t \in TenantId \cup {NoTenantId}
    BY <1>1, <1>3 DEF Page, TenantOf
  <2> HIDE DEF t
  <2>3. <<p.of, p.what, t>> \in SupportKey
    BY <2>2 DEF SupportKey
  <2>4. Ask(p, f, s, g) = [tenant |-> t, case |-> g.case]
    BY DEF Ask, t
  <2>5. Ask(p, f, s, g) \in AskState /\ Ask(p, f, s, g).tenant = t
    BY <1>1, <2>2, <2>4 DEF AskState
  <2>6. KeyOf(p, f, s, g)[1] = p.of /\ KeyOf(p, f, s, g)[3] = t
    BY <2>1
  <2>7. AskUnder(KeyOf(p, f, s, g), Ask(p, f, s, g), g)
    BY <1>3, <2>4, <2>6 DEF AskUnder
  <2>. QED
    BY <1>3, <2>1, <2>3, <2>5, <2>6, <2>7, SupportPagesAssumption DEF AskFor, t
<1>. QED
  BY <1>2, <1>3

LEMMA FetchesKeepLog ==
    ASSUME PagesTyped, LoggedInv, UNCHANGED <<data, accessLog>>, fetch' \in [Key -> PageFetch],
           \A k \in SupportKey : \/ fetch'[k] = fetch[k] \/ fetch'[k] = Idle
                                 \/ \E ask \in AskState : fetch'[k] = Sent(ask) /\ AskFor(k, ask)
    PROVE  LoggedInv'
<1>1. \A k \in SupportKey :
          /\ fetch'[k] # Idle => AskFor(k, fetch'[k].answer)
          /\ fetch'[k].stage = "read" => fetch'[k] = fetch[k]
  <2> SUFFICES ASSUME NEW k \in SupportKey
               PROVE  /\ fetch'[k] # Idle => AskFor(k, fetch'[k].answer)
                      /\ fetch'[k].stage = "read" => fetch'[k] = fetch[k]
    OBVIOUS
  <2>1. CASE fetch'[k] = fetch[k]
    BY <2>1 DEF LoggedInv
  <2>2. CASE fetch'[k] = Idle
    BY <2>2 DEF Idle
  <2>3. ASSUME NEW ask \in AskState, fetch'[k] = Sent(ask), AskFor(k, ask)
        PROVE  fetch'[k].stage = "sent" /\ AskFor(k, fetch'[k].answer)
    BY <2>3, SentAsks
  <2>. QED
    BY <2>1, <2>2, <2>3
<1>. QED
  BY <1>1 DEF LoggedInv

LEMMA AskedFetches ==
    ASSUME PagesTyped, NEW k \in SupportKey, NEW ask \in AskState, AskFor(k, ask),
           fetch' = FetchIfStale({k}, ask) \/ fetch' = FetchAnew({k}, ask)
    PROVE  /\ fetch' \in [Key -> PageFetch]
           /\ \A j \in SupportKey : fetch'[j] = fetch[j] \/ (fetch'[j] = Sent(ask) /\ j = k /\ AskFor(j, ask))
<1>1. fetch \in [Key -> PageFetch] /\ SupportKey \subseteq Key /\ Sent(ask) \in PageFetch
  BY SupportPagesAssumption, SentAsks DEF PagesTyped
<1>2. fetch' = [j \in Key |-> fetch'[j]]
  BY DEF FetchIfStale, FetchAnew
<1>3. \A j \in Key : fetch'[j] = fetch[j] \/ (fetch'[j] = Sent(ask) /\ j = k)
  BY DEF FetchIfStale, FetchAnew
<1>4. \A j \in Key : fetch'[j] \in PageFetch
  BY <1>1, <1>3
<1>5. fetch' \in [Key -> PageFetch]
  BY <1>2, <1>4
<1>. QED
  BY <1>1, <1>3, <1>5

LEMMA ShowKeepsInv ==
    ASSUME PagesTyped, LoggedInv,
           NEW p \in Page \cup {NoPage}, NEW f \in TenantId \cup {NoTenantId},
           NEW s \in TenantId \cup {NoTenantId}, NEW g \in StoredGate, Show(p, f, s, g)
    PROVE  PagesTyped' /\ LoggedInv'
<1>1. UNCHANGED <<data, accessLog>> /\ gate' = g /\ open' = p /\ field' = f /\ submitted' = s
  BY DEF Show
<1>2. CASE Enabled(p, s, g)
  <2>1. fetch' = FetchIfStale({KeyOf(p, f, s, g)}, Ask(p, f, s, g))
    BY <1>2 DEF Show
  <2>2. fetch' \in [Key -> PageFetch] /\ \A j \in SupportKey : \/ fetch'[j] = fetch[j]
            \/ \E ask \in AskState : fetch'[j] = Sent(ask) /\ AskFor(j, ask)
    <3> DEFINE k == KeyOf(p, f, s, g)
               ask == Ask(p, f, s, g)
    <3>1. k \in SupportKey /\ ask \in AskState /\ AskFor(k, ask) /\ fetch' = FetchIfStale({k}, ask)
      BY <1>2, <2>1, PageAsks
    <3> HIDE DEF k, ask
    <3>. QED
      BY <3>1, AskedFetches
  <2>. QED
    BY <1>1, <2>2, FetchesKeepLog DEF PagesTyped
<1>3. CASE ~Enabled(p, s, g)
  <2>1. fetch' = fetch
    BY <1>3 DEF Show
  <2>. QED
    BY <1>1, <2>1 DEF PagesTyped, LoggedInv
<1>. QED
  BY <1>2, <1>3

LEMMA PagesNextKeepsInv ==
    ASSUME PagesTyped, LoggedInv, PagesNext
    PROVE  PagesTyped' /\ LoggedInv'
<1>1. /\ \A g \in StoredGate : TenantIn(g) \in TenantId \cup {NoTenantId}
      /\ \A p \in Page : p.url \in TenantId \cup {NoTenantId}
      /\ NoTenantId \in TenantId \cup {NoTenantId} /\ NoGate \in StoredGate /\ GateEntry \subseteq StoredGate
  BY SupportPagesAssumption DEF TenantIn, StoredGate, Page
<1>2. \A g \in StoredGate : FieldFor(g) \in TenantId \cup {NoTenantId}
  BY <1>1 DEF FieldFor, PagesTyped
<1>3. CASE OpenPage
  <2>1. PICK p \in Page : Show(p, IF p.url # NoTenantId THEN p.url ELSE TenantIn(gate), NoTenantId, gate)
    BY <1>3 DEF OpenPage
  <2>2. (IF p.url # NoTenantId THEN p.url ELSE TenantIn(gate)) \in TenantId \cup {NoTenantId}
    BY <1>1 DEF PagesTyped
  <2>. QED
    BY <1>1, <2>1, <2>2, ShowKeepsInv DEF PagesTyped
<1>4. CASE EnterGate \/ LeaveGate
  BY <1>1, <1>2, <1>4, ShowKeepsInv DEF EnterGate, LeaveGate, PagesTyped
<1>5. CASE TypeTenant \/ Search
  BY <1>5, ShowKeepsInv DEF TypeTenant, Search, PagesTyped
<1>6. CASE ApplyFilters
  <2> DEFINE p == [open EXCEPT !.url = field]
             f == IF field # NoTenantId THEN field ELSE TenantIn(gate)
  <2>1. Show(p, f, submitted, gate)
    BY <1>6 DEF ApplyFilters
  <2>2. open \in Page /\ open.of = "auditLog" /\ field \in TenantId \cup {NoTenantId}
    BY <1>6 DEF ApplyFilters, PagesTyped
  <2>3. open \in [of : {"auditLog"}, what : {NoPage}, url : TenantId \cup {NoTenantId}]
    BY <2>2 DEF Page
  <2>4. p \in [of : {"auditLog"}, what : {NoPage}, url : TenantId \cup {NoTenantId}]
    BY <2>2, <2>3
  <2>5. p \in Page
    BY <2>4 DEF Page
  <2>6. f \in TenantId \cup {NoTenantId} /\ submitted \in TenantId \cup {NoTenantId} /\ gate \in StoredGate
    BY <1>1, <2>2 DEF PagesTyped
  <2> HIDE DEF p, f
  <2>. QED
    BY <2>1, <2>5, <2>6, ShowKeepsInv
<1>7. CASE Refresh
  <2>1. UNCHANGED <<data, gate, open, field, submitted, accessLog>> /\ Enabled(open, submitted, gate)
        /\ \/ fetch' = FetchIfStale({KeyShown}, Ask(open, field, submitted, gate))
           \/ fetch' = FetchAnew({KeyShown}, Ask(open, field, submitted, gate))
    BY <1>7 DEF Refresh
  <2>2. fetch' \in [Key -> PageFetch] /\ \A j \in SupportKey : \/ fetch'[j] = fetch[j]
            \/ \E ask \in AskState : fetch'[j] = Sent(ask) /\ AskFor(j, ask)
    <3> DEFINE k == KeyShown
               ask == Ask(open, field, submitted, gate)
    <3>1. k \in SupportKey /\ ask \in AskState /\ AskFor(k, ask)
          /\ (fetch' = FetchIfStale({k}, ask) \/ fetch' = FetchAnew({k}, ask))
      BY <2>1, PageAsks DEF PagesTyped, KeyShown
    <3> HIDE DEF k, ask
    <3>. QED
      BY <3>1, AskedFetches
  <2>. QED
    BY <2>1, <2>2, FetchesKeepLog DEF PagesTyped
<1>8. CASE GrowOld
  BY <1>8 DEF GrowOld, Age, pageVars, PagesTyped, LoggedInv
<1>9. ASSUME NEW k \in SupportKey, Serve(k) \/ Receive(k) \/ Again(k) \/ GiveUpOn(k)
      PROVE  PagesTyped' /\ LoggedInv'
  <2>1. k \in Key /\ fetch \in [Key -> PageFetch] /\ data \in [Key -> AskState \cup {NoData}]
    BY SupportPagesAssumption DEF PagesTyped
  <2>2. UNCHANGED <<gate, open, field, submitted>>
    BY <1>9 DEF Serve, Receive, Again, GiveUpOn, Leave
  <2>3. fetch[k] # Idle => fetch[k].answer \in AskState /\ AskFor(k, fetch[k].answer)
    BY <2>1 DEF PageFetch, LoggedInv
  <2>4. CASE Serve(k)
    <3>1. fetch[k].stage = "sent" /\ fetch[k] # Idle /\ UNCHANGED data
          /\ accessLog' = accessLog \cup {[key |-> k, ask |-> fetch[k].answer]}
      BY <2>4 DEF Serve, Read, Idle
    <3> DEFINE answer == fetch[k].answer
    <3>2. /\ fetch'[k].stage = "read" /\ fetch'[k].answer = answer /\ fetch'[k] \in PageFetch
          /\ \A j \in Key \ {k} : fetch'[j] = fetch[j]
          /\ fetch' \in [Key -> PageFetch]
      <4>1. fetch[k] \in [stage : {"sent", "read"}, answer : AskState]
        BY <2>1, <3>1 DEF PageFetch
      <4>2. PICK f \in [stage : {"read"}, answer : {answer}] : fetch' = [fetch EXCEPT ![k] = f]
        <5>1. ASSUME NEW old \in [stage : {"sent", "read"}, answer : AskState], NEW n,
                     NEW f, f = [old EXCEPT !.stage = "read", !.answer = n]
              PROVE  f \in [stage : {"read"}, answer : {n}]
          BY <5>1
        <5>2. fetch' = [fetch EXCEPT ![k] = [fetch[k] EXCEPT !.stage = "read", !.answer = answer]]
          BY <2>1, <2>4 DEF Serve, Read
        <5> HIDE DEF answer
        <5>. QED
          BY <4>1, <5>1, <5>2
      <4>3. f \in PageFetch /\ f.stage = "read" /\ f.answer = answer
        BY <2>3, <3>1, <4>2 DEF PageFetch
      <4>. QED
        BY <2>1, <4>2, <4>3
    <3>3. LoggedInv'
      <4>1. /\ AskFor(k, fetch'[k].answer)
            /\ [key |-> k, ask |-> fetch'[k].answer] \in accessLog'
        BY <2>3, <3>1, <3>2
      <4>2. \A j \in SupportKey \ {k} : fetch'[j] = fetch[j]
        BY <3>2, SupportPagesAssumption
      <4>3. accessLog \subseteq accessLog'
        BY <3>1
      <4>. QED
        BY <3>1, <4>1, <4>2, <4>3 DEF LoggedInv
    <3>. QED
      BY <2>2, <3>1, <3>2, <3>3 DEF PagesTyped
  <2>5. CASE Receive(k)
    <3>1. /\ fetch[k].stage = "read" /\ fetch[k] # Idle /\ UNCHANGED accessLog
          /\ data' = [data EXCEPT ![k] = fetch[k].answer] /\ fetch' = [fetch EXCEPT ![k] = Idle]
      BY <2>5 DEF Receive, Store, Idle
    <3>2. Idle \in PageFetch /\ Idle.stage = "idle"
      BY DEF PageFetch, Idle
    <3>3. LoggedInv'
      BY <2>1, <2>3, <3>1, <3>2, SupportPagesAssumption DEF LoggedInv
    <3>. QED
      BY <2>1, <2>2, <2>3, <3>1, <3>2, <3>3 DEF PagesTyped
  <2>6. CASE Again(k)
    <3>1. PICK ask \in AskState : AskFor(k, ask) /\ TryAgain(k, ask)
      <4>1. fetch[k] # Idle
        BY <2>6 DEF Again, TryAgain
      <4>2. CASE Enabled(open, submitted, gate) /\ KeyShown = k
        BY <2>6, <4>2, PageAsks DEF Again, KeyShown, PagesTyped
      <4>3. CASE ~(Enabled(open, submitted, gate) /\ KeyShown = k)
        BY <2>3, <2>6, <4>1, <4>3 DEF Again
      <4>. QED
        BY <4>2, <4>3
    <3>2. UNCHANGED <<data, accessLog>> /\ fetch' = [fetch EXCEPT ![k] = Sent(ask)]
      BY <2>6, <3>1 DEF Again, TryAgain
    <3>3. fetch' \in [Key -> PageFetch] /\ \A j \in SupportKey : \/ fetch'[j] = fetch[j]
              \/ (fetch'[j] = Sent(ask) /\ AskFor(j, ask))
      BY <2>1, <3>1, <3>2, SentAsks, SupportPagesAssumption
    <3>. QED
      BY <2>2, <3>2, <3>3, FetchesKeepLog DEF PagesTyped
  <2>7. CASE GiveUpOn(k)
    <3>1. UNCHANGED <<data, accessLog>> /\ fetch' = [fetch EXCEPT ![k] = Idle]
      BY <2>7 DEF GiveUpOn, Fail
    <3>2. fetch' \in [Key -> PageFetch] /\ \A j \in SupportKey : fetch'[j] = fetch[j] \/ fetch'[j] = Idle
      BY <2>1, <3>1, SupportPagesAssumption DEF PageFetch
    <3>. QED
      BY <2>2, <3>1, <3>2, FetchesKeepLog DEF PagesTyped
  <2>. QED
    BY <1>9, <2>4, <2>5, <2>6, <2>7
<1>. QED
  BY <1>3, <1>4, <1>5, <1>6, <1>7, <1>8, <1>9 DEF PagesNext

LEMMA SessionKept ==
    ASSUME SessionInv, UNCHANGED <<gate, carried>>,
           \A k \in SupportKey :
              /\ \/ data'[k] = data[k]
                 \/ fetch[k] # Idle /\ data'[k] = fetch[k].answer
              /\ \/ fetch'[k] = Idle \/ fetch'[k] = fetch[k]
                 \/ fetch[k] # Idle /\ fetch'[k].answer = fetch[k].answer
                 \/ AskUnder(k, fetch'[k].answer, gate)
    PROVE  SessionInv'
<1>. SUFFICES ASSUME gate # NoGate, NEW k \in SupportKey
              PROVE  /\ data'[k] # NoData => OfSession(k, data'[k])
                     /\ fetch'[k] # Idle => OfSession(k, fetch'[k].answer)
  BY DEF SessionInv, OfSession, Idle
<1>. QED
  BY DEF SessionInv, OfSession

LEMMA ShowKeepsSession ==
    ASSUME PagesTyped, SessionInv,
           NEW p \in Page \cup {NoPage}, NEW f \in TenantId \cup {NoTenantId},
           NEW s \in TenantId \cup {NoTenantId}, NEW g \in StoredGate, Show(p, f, s, g)
    PROVE  SessionInv'
<1>1. gate' = g /\ data' = data /\ carried' = IF g = gate THEN carried ELSE Held
  BY DEF Show
<1>2. \A j \in SupportKey : fetch'[j] = fetch[j] \/ AskUnder(j, fetch'[j].answer, g)
  <2>1. CASE Enabled(p, s, g)
    <3> DEFINE k == KeyOf(p, f, s, g)
               ask == Ask(p, f, s, g)
    <3>1. k \in SupportKey /\ ask \in AskState /\ AskFor(k, ask) /\ AskUnder(k, ask, g)
      BY <2>1, PageAsks
    <3>2. fetch' = FetchIfStale({k}, ask)
      BY <2>1 DEF Show
    <3> HIDE DEF k, ask
    <3>3. \A j \in SupportKey : fetch'[j] = fetch[j] \/ (fetch'[j] = Sent(ask) /\ j = k)
      BY <3>1, <3>2, AskedFetches
    <3>. QED
      BY <3>1, <3>3, SentAsks
  <2>2. CASE ~Enabled(p, s, g)
    BY <2>2 DEF Show
  <2>. QED
    BY <2>1, <2>2
<1>3. CASE g = gate
  BY <1>1, <1>2, <1>3, SessionKept
<1>4. CASE g # gate
  <2>1. \A k \in SupportKey :
           /\ data[k] # NoData => [key |-> k, ask |-> data[k]] \in Held
           /\ fetch[k] # Idle => [key |-> k, ask |-> fetch[k].answer] \in Held
    BY DEF Held
  <2>. QED
    BY <1>1, <1>2, <1>4, <2>1 DEF SessionInv, OfSession, Idle
<1>. QED
  BY <1>3, <1>4

LEMMA PagesNextKeepsSession ==
    ASSUME PagesTyped, SessionInv, PagesNext
    PROVE  SessionInv'
<1>1. /\ \A g \in StoredGate : TenantIn(g) \in TenantId \cup {NoTenantId}
      /\ \A p \in Page : p.url \in TenantId \cup {NoTenantId}
      /\ NoTenantId \in TenantId \cup {NoTenantId} /\ NoGate \in StoredGate /\ GateEntry \subseteq StoredGate
  BY SupportPagesAssumption DEF TenantIn, StoredGate, Page
<1>2. \A g \in StoredGate : FieldFor(g) \in TenantId \cup {NoTenantId}
  BY <1>1 DEF FieldFor, PagesTyped
<1>3. ASSUME OpenPage \/ EnterGate \/ LeaveGate \/ TypeTenant \/ ApplyFilters \/ Search
      PROVE  SessionInv'
  <2>1. PICK p \in Page \cup {NoPage}, f \in TenantId \cup {NoTenantId},
             s \in TenantId \cup {NoTenantId}, g \in StoredGate : Show(p, f, s, g)
    <3>1. CASE OpenPage
      BY <1>1, <3>1 DEF OpenPage, PagesTyped
    <3>2. CASE EnterGate \/ LeaveGate
      BY <1>1, <1>2, <3>2 DEF EnterGate, LeaveGate, PagesTyped
    <3>3. CASE TypeTenant \/ Search
      BY <3>3 DEF TypeTenant, Search, PagesTyped
    <3>4. CASE ApplyFilters
      <4>1. open \in [of : {"auditLog"}, what : {NoPage}, url : TenantId \cup {NoTenantId}]
        BY <3>4 DEF ApplyFilters, PagesTyped, Page
      <4>2. [open EXCEPT !.url = field] \in [of : {"auditLog"}, what : {NoPage}, url : TenantId \cup {NoTenantId}]
        BY <4>1 DEF PagesTyped
      <4>3. [open EXCEPT !.url = field] \in Page
        BY <4>2 DEF Page
      <4>. QED
        BY <1>1, <3>4, <4>3 DEF ApplyFilters, PagesTyped
    <3>. QED
      BY <1>3, <3>1, <3>2, <3>3, <3>4
  <2>. QED
    BY <2>1, ShowKeepsSession
<1>4. CASE Refresh
  <2> DEFINE k == KeyShown
             ask == Ask(open, field, submitted, gate)
  <2>1. /\ UNCHANGED <<data, gate, carried>> /\ Enabled(open, submitted, gate)
        /\ fetch' = FetchIfStale({k}, ask) \/ fetch' = FetchAnew({k}, ask)
    BY <1>4 DEF Refresh
  <2>2. k \in SupportKey /\ ask \in AskState /\ AskFor(k, ask) /\ AskUnder(k, ask, gate)
    BY <2>1, PageAsks DEF PagesTyped, KeyShown
  <2> HIDE DEF k, ask
  <2>3. \A j \in SupportKey : fetch'[j] = fetch[j] \/ (fetch'[j] = Sent(ask) /\ j = k)
    BY <2>1, <2>2, AskedFetches
  <2>4. \A j \in SupportKey : fetch'[j] = fetch[j] \/ AskUnder(j, fetch'[j].answer, gate)
    BY <2>2, <2>3, SentAsks
  <2>. QED
    BY <2>1, <2>4, SessionKept
<1>5. CASE GrowOld
  BY <1>5, SessionKept DEF GrowOld, Age, pageVars
<1>6. ASSUME NEW k \in SupportKey, Serve(k) \/ Receive(k) \/ Again(k) \/ GiveUpOn(k)
      PROVE  SessionInv'
  <2>1. /\ k \in Key /\ fetch \in [Key -> PageFetch] /\ data \in [Key -> AskState \cup {NoData}]
        /\ UNCHANGED <<gate, carried>> /\ SupportKey \subseteq Key
    BY <1>6, SupportPagesAssumption DEF PagesTyped, Serve, Receive, Again, GiveUpOn, Leave
  <2>2. CASE Serve(k)
    <3>1. fetch[k] \in [stage : {"sent", "read"}, answer : AskState] /\ fetch[k] # Idle
      BY <2>1, <2>2 DEF PageFetch, Serve, Read, Idle
    <3>2. \A old \in [stage : {"sent", "read"}, answer : AskState] :
             [old EXCEPT !.stage = "read", !.answer = old.answer].answer = old.answer
      OBVIOUS
    <3>3. /\ data' = data
          /\ fetch' = [fetch EXCEPT ![k] = [fetch[k] EXCEPT !.stage = "read", !.answer = fetch[k].answer]]
      BY <2>1, <2>2 DEF Serve, Read
    <3>4. fetch'[k].answer = fetch[k].answer /\ \A j \in SupportKey \ {k} : fetch'[j] = fetch[j]
      BY <2>1, <3>1, <3>2, <3>3
    <3>. QED
      BY <2>1, <3>1, <3>3, <3>4, SessionKept
  <2>3. CASE Receive(k)
    <3>1. /\ fetch[k] # Idle /\ data' = [data EXCEPT ![k] = fetch[k].answer]
          /\ fetch' = [fetch EXCEPT ![k] = Idle]
      BY <2>3 DEF Receive, Store, Idle
    <3>. QED
      BY <2>1, <3>1, SessionKept
  <2>4. CASE Again(k)
    <3>1. /\ fetch[k] # Idle /\ data' = data
          /\ fetch' = [fetch EXCEPT ![k] = Sent(
                IF Enabled(open, submitted, gate) /\ KeyShown = k
                THEN Ask(open, field, submitted, gate) ELSE fetch[k].answer)]
      BY <2>4 DEF Again, TryAgain
    <3>2. CASE Enabled(open, submitted, gate) /\ KeyShown = k
      <4>1. AskUnder(k, Ask(open, field, submitted, gate), gate) /\ Ask(open, field, submitted, gate) \in AskState
        BY <3>2, PageAsks DEF PagesTyped, KeyShown
      <4>2. AskUnder(k, fetch'[k].answer, gate) /\ \A j \in SupportKey \ {k} : fetch'[j] = fetch[j]
        BY <2>1, <3>1, <3>2, <4>1, SentAsks
      <4>. QED
        BY <2>1, <3>1, <4>2, SessionKept
    <3>3. CASE ~(Enabled(open, submitted, gate) /\ KeyShown = k)
      <4>1. fetch'[k].answer = fetch[k].answer /\ \A j \in SupportKey \ {k} : fetch'[j] = fetch[j]
        BY <2>1, <3>1, <3>3 DEF Sent
      <4>. QED
        BY <2>1, <3>1, <4>1, SessionKept
    <3>. QED
      BY <3>2, <3>3
  <2>5. CASE GiveUpOn(k)
    <3>1. data' = data /\ fetch' = [fetch EXCEPT ![k] = Idle]
      BY <2>5 DEF GiveUpOn, Fail
    <3>. QED
      BY <2>1, <3>1, SessionKept
  <2>. QED
    BY <1>6, <2>2, <2>3, <2>4, <2>5
<1>. QED
  BY <1>3, <1>4, <1>5, <1>6 DEF PagesNext

-----------------------------------------------------------------------------
(* The tab, whichever pages it is on.                                      *)

ClientsInv ==
    /\ area # "admin" => FormsInv /\ gate = NoGate /\ open = NoPage
    /\ area = "admin" => /\ PagesTyped /\ LoggedInv /\ SessionInv
                         /\ sent = <<>> /\ stored = <<>> /\ acknowledged = {} /\ tab = BlankForm

LEMMA ClientsStart == ClientsInit => ClientsInv
<1>. SUFFICES ASSUME ClientsInit PROVE ClientsInv
  OBVIOUS
<1>1. CASE FormsInit /\ gate = NoGate
  <2>1. area # "admin" /\ open = NoPage
    BY <1>1 DEF FormsInit, ClientsInit, PagesInit
  <2>. QED
    BY <1>1, <2>1, FormsStart DEF ClientsInv
<1>2. CASE area = "admin" /\ tab = BlankForm /\ CacheInit /\ NothingRecorded
  <2>1. /\ data = [k \in Key |-> NoData] /\ fetch = [k \in Key |-> Idle]
        /\ gate \in StoredGate /\ open = NoPage /\ field = NoTenantId /\ submitted = NoTenantId
        /\ sent = <<>> /\ stored = <<>> /\ acknowledged = {}
    BY <1>2 DEF CacheInit, ClientsInit, PagesInit, NothingRecorded
  <2>2. Idle \in PageFetch /\ Idle.stage = "idle"
    BY DEF PageFetch, Idle
  <2>3. PagesTyped
    BY <2>1, <2>2 DEF PagesTyped
  <2>4. LoggedInv
    BY <2>1, <2>2, SupportPagesAssumption DEF LoggedInv
  <2>5. SessionInv
    BY <2>1, SupportPagesAssumption DEF SessionInv
  <2>. QED
    BY <1>2, <2>1, <2>3, <2>4, <2>5 DEF ClientsInv
<1>. QED
  BY <1>1, <1>2 DEF ClientsInit

LEMMA ClientsStep == ClientsInv /\ [ClientsNext]_clientVars => ClientsInv'
<1>. SUFFICES ASSUME ClientsInv, [ClientsNext]_clientVars PROVE ClientsInv'
  OBVIOUS
<1>1. CASE area # "admin" /\ FormsNext /\ UNCHANGED pageVars
  <2>1. FormsInv'
    BY <1>1, FormsNextKeepsInv DEF ClientsInv
  <2>2. area' # "admin" /\ gate' = gate /\ open' = open
    BY <1>1, <2>1 DEF FormsInv, FormsTyped, pageVars
  <2>. QED
    BY <1>1, <2>1, <2>2 DEF ClientsInv
<1>2. CASE area = "admin" /\ PagesNext /\ UNCHANGED formVars
  <2>1. PagesTyped' /\ LoggedInv' /\ SessionInv'
    BY <1>2, PagesNextKeepsInv, PagesNextKeepsSession DEF ClientsInv
  <2>2. UNCHANGED <<area, sent, stored, acknowledged, tab>> /\ BlankForm' = BlankForm
    BY <1>2 DEF formVars, serverVars, historyVars, BlankForm
  <2>. QED
    BY <1>2, <2>1, <2>2 DEF ClientsInv
<1>3. CASE UNCHANGED clientVars
  <2>1. UNCHANGED formsVars /\ UNCHANGED <<gate, open, field, submitted, accessLog, carried>>
    BY <1>3 DEF clientVars, pageVars
  <2>2. UNCHANGED <<data, fetch, area, sent, stored, acknowledged, tab>> /\ BlankForm' = BlankForm
    BY <2>1 DEF formsVars, formVars, cacheVars, serverVars, historyVars, BlankForm
  <2>3. CASE area # "admin"
    <3>1. FormsInv'
      BY <2>1, <2>3, FormsStutterKeepsInv DEF ClientsInv
    <3>. QED
      BY <2>1, <2>2, <2>3, <3>1 DEF ClientsInv
  <2>4. CASE area = "admin"
    <3>1. PagesTyped' /\ LoggedInv'
      BY <2>1, <2>2, <2>4 DEF ClientsInv, PagesTyped, LoggedInv
    <3>2. SessionInv'
      BY <2>1, <2>2, <2>4 DEF ClientsInv, SessionInv, OfSession, Idle
    <3>. QED
      BY <2>1, <2>2, <2>4, <3>1, <3>2 DEF ClientsInv
  <2>. QED
    BY <2>3, <2>4
<1>. QED
  BY <1>1, <1>2, <1>3 DEF ClientsNext

\* The forms and the support pages keep the invariant of their tab.
THEOREM ClientsInvariant == ClientsSpec => []ClientsInv
BY ClientsStart, ClientsStep, PTL DEF ClientsSpec

LEMMA NothingAdmin ==
    ASSUME ClientsInv, area = "admin"
    PROVE  DOMAIN stored = {} /\ acknowledged = {} /\ tab.told = {}
BY BlankFormIs DEF ClientsInv

\* However often a button is pressed, whatever is lost and wherever the tab goes, one
\* intention is recorded once (repay/page.tsx:47), for any roll, amounts and bounds.
THEOREM RecordedOnceHolds == ClientsSpec => []RecordedOnce
<1>1. ASSUME ClientsInv PROVE RecordedOnce
  <2>1. CASE area = "admin"
    BY <1>1, <2>1, NothingAdmin DEF RecordedOnce
  <2>2. CASE area # "admin"
    <3>1. FormsInv
      BY <1>1, <2>2 DEF ClientsInv
    <3>2. ASSUME NEW i \in DOMAIN stored, NEW j \in DOMAIN stored, i < j,
                 stored[i].by # 0, stored[j].by # 0, stored[i].op = stored[j].op
          PROVE  CASE stored[i].op = "repayment" -> sent[stored[i].by].visit # sent[stored[j].by].visit
                   [] stored[i].op = "bulk" -> stored[i].member # stored[j].member
                   [] OTHER -> sent[stored[i].by].intent = sent[stored[j].by].intent =>
                                   {stored[i].by, stored[j].by} \cap gaveUp # {}
      <4>1. /\ i # j /\ FromRequest(i) /\ FromRequest(j)
            /\ CASE stored[i].op = "repayment" -> stored[i].key # stored[j].key
                 [] stored[i].op = "bulk" -> stored[i].key # stored[j].key
                 [] OTHER -> stored[i].by # stored[j].by
        <5>1. i # j
          BY <3>1, <3>2, RowTypes DEF FormsInv
        <5>. QED
          BY <3>1, <3>2, <5>1 DEF FormsInv, RowsInv
      <4>2. CASE stored[i].op = "repayment"
        BY <3>1, <3>2, <4>1, <4>2 DEF FromRequest, FormsInv, KeysInv
      <4>3. CASE stored[i].op = "bulk"
        BY <3>1, <3>2, <4>1, <4>3 DEF FormsInv, RowsInv
      <4>4. CASE stored[i].op \notin {"repayment", "bulk"}
        BY <3>1, <3>2, <4>1, <4>4 DEF FromRequest, FormsInv, IntentInv
      <4>. QED
        BY <4>2, <4>3, <4>4
    <3>. QED
      BY <3>2 DEF RecordedOnce
  <2>. QED
    BY <2>1, <2>2
<1>. QED
  BY <1>1, ClientsInvariant, PTL

\* "This repayment was already recorded" (frontend/lib/copy/messages.ts:219) is told of
\* a repayment that the page has recorded.
THEOREM AlreadyRecordedHolds == ClientsSpec => []AlreadyRecordedIsTrue
<1>1. ASSUME ClientsInv PROVE AlreadyRecordedIsTrue
  <2>1. CASE area = "admin"
    BY <1>1, <2>1, NothingAdmin DEF AlreadyRecordedIsTrue
  <2>2. CASE area # "admin"
    BY <1>1, <2>2 DEF ClientsInv, FormsInv, ToldInv, AlreadyRecordedIsTrue
  <2>. QED
    BY <2>1, <2>2
<1>. QED
  BY <1>1, ClientsInvariant, PTL

\* A page says that it was recorded when it was, and the allocation it shows is not one
\* of before (repay/page.tsx:58).
THEOREM SuccessIsRecordedHolds == ClientsSpec => []SuccessIsRecorded
<1>1. ASSUME ClientsInv PROVE SuccessIsRecorded
  <2>1. CASE area = "admin"
    BY <1>1, <2>1, NothingAdmin DEF SuccessIsRecorded
  <2>2. CASE area # "admin"
    <3>1. FormsInv
      BY <1>1, <2>2 DEF ClientsInv
    <3>2. SUFFICES ASSUME "success" \in tab.told PROVE SuccessIsRecorded
      BY DEF SuccessIsRecorded
    <3> DEFINE r == tab.answered
    <3>3. r \in DOMAIN sent /\ fate[r] = "recorded" /\ Served(r)
      BY <3>1, <3>2 DEF FormsInv, ToldInv, FateInv
    <3>4. CASE sent[r].op = "repayment"
      <4>1. /\ tab.screen # "list" /\ sent[r].visit = tab.visit
            /\ tab.refetch = "none" => \E i \in 1..tab.allocation : stored[i].key = tab.key
        BY <3>1, <3>2, <3>3, <3>4, SentOps DEF FormsInv, ToldInv
      <4>2. tab.key = sent[r].key
        BY <3>1, <3>3, <3>4, <4>1 DEF FormsInv, KeysInv
      <4>. QED
        BY <3>3, <3>4, <4>1, <4>2 DEF Served, SuccessIsRecorded
    <3>5. CASE sent[r].op = "bulk"
      BY <3>3, <3>5 DEF Served, SuccessIsRecorded, KeyFor
    <3>6. CASE sent[r].op \notin {"repayment", "bulk"}
      BY <3>3, <3>6 DEF Served, SuccessIsRecorded
    <3>. QED
      BY <3>4, <3>5, <3>6
  <2>. QED
    BY <2>1, <2>2
<1>. QED
  BY <1>1, ClientsInvariant, PTL

\* What the tab has seen acknowledged, the pages show for as long as they take their
\* answer for fresh, but for the fetches that were overtaken (treasurer.ts:358).
THEOREM OwnWriteShownHolds == ClientsSpec => []OwnWriteShown
<1>1. ASSUME ClientsInv PROVE OwnWriteShown
  <2>1. CASE area = "admin"
    BY <1>1, <2>1, NothingAdmin DEF OwnWriteShown
  <2>2. CASE area # "admin"
    BY <1>1, <2>2 DEF ClientsInv, FormsInv, AnswersInv, Showing, RowsBefore, OwnWriteShown
  <2>. QED
    BY <2>1, <2>2
<1>. QED
  BY <1>1, ClientsInvariant, PTL

\* What a support page shows was logged before it was answered, and was asked by the
\* entry that is in the gate or carried over from an earlier one (query-keys.ts:46), for
\* any tenants, files and entities and however many fetches.
THEOREM ShownWasLoggedHolds == ClientsSpec => []ShownWasLogged
<1>1. ASSUME ClientsInv PROVE ShownWasLogged
  <2>1. CASE ~Enabled(open, submitted, gate)
    BY <2>1 DEF ShownWasLogged, Shown
  <2>2. CASE Enabled(open, submitted, gate) /\ Shown # NoData
    <3>1. area = "admin" /\ PagesTyped /\ LoggedInv /\ SessionInv /\ gate # NoGate
      BY <1>1, <2>2 DEF ClientsInv, Enabled
    <3> DEFINE ask == Ask(open, field, submitted, gate)
    <3>2. /\ KeyShown \in SupportKey /\ KeyShown \in Key
          /\ open.of # "evidence" => KeyShown[1] # "evidence" /\ KeyShown[3] = TenantOf(open, field, submitted, gate)
          /\ open.of = "evidence" => ask = [tenant |-> gate.tenant, case |-> gate.case]
                                     /\ KeyShown[1] = "evidence"
      BY <2>2, <3>1, PageAsks DEF PagesTyped, KeyShown
    <3>3. Shown = data[KeyShown]
      BY <2>2 DEF Shown
    <3>4. /\ Shown \in AskState /\ AskFor(KeyShown, Shown) /\ OfSession(KeyShown, Shown)
          /\ [key |-> KeyShown, ask |-> Shown] \in accessLog
      BY <2>2, <3>1, <3>2, <3>3 DEF PagesTyped, LoggedInv, SessionInv
    <3>5. open.of # "evidence" => Shown.tenant = TenantOf(open, field, submitted, gate)
      BY <3>2, <3>4 DEF AskFor
    <3>6. Shown = [tenant |-> Shown.tenant, case |-> Shown.case]
      BY <3>4 DEF AskState
    <3>7. ASSUME AskUnder(KeyShown, Shown, gate) PROVE Shown = ask
      <4>1. CASE open.of = "evidence"
        BY <3>2, <3>6, <3>7, <4>1 DEF AskUnder
      <4>2. CASE open.of # "evidence"
        BY <3>5, <3>6, <3>7, <4>2 DEF AskUnder, Ask
      <4>. QED
        BY <4>1, <4>2
    <3>. QED
      BY <3>4, <3>5, <3>7 DEF ShownWasLogged, OfSession
  <2>. QED
    BY <2>1, <2>2 DEF ShownWasLogged
<1>. QED
  BY <1>1, ClientsInvariant, PTL

=============================================================================
