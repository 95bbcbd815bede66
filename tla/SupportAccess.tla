--------------------------- MODULE SupportAccess ---------------------------
(***************************************************************************)
(* The support endpoints (backend/src/support, evidence, audit): whoever   *)
(* reads a tenant's data for a support case first leaves a row in the      *)
(* tenant's audit log.  A request runs one awaited statement at a time,    *)
(* while services append rows of their own and notifications are retried.  *)
(* Lists are read in pages: the answer's cursor asks for the next one.     *)
(* What a trace contains is ContributionReads and LoanReads.               *)
(***************************************************************************)
EXTENDS AuditLog, Integers, FiniteSets, TLC

CONSTANTS
    Case, Blank,            \* Blank: the case id or the reason is missing
    User, Holder,           \* Holder: who passes every check of permission or membership
    File,                   \* ids that evidence files may get
    Notification,           \* ids in the order of the column
    NotificationGroup,
    Request, Instruction,
    PageLimit,              \* bound: rows of a page
    MaxInFlight,            \* bound: requests being served at the same time
    NoSubject, NoCommand

SupportAccessDto == [tenant : Tenant, case : Case \cup {Blank}, by : User]
\* The tenant of the SMS failures may be left open.
AnyTenantDto == [tenant : Tenant \cup {NoTenant}, case : Case \cup {Blank}, by : User]
Subject == File \cup Notification

\* `subject` is the file or the notification, or the file a list is about.
SupportCommand ==
    [op : {"AUDIT_LOG_READ", "TRACE_READ", "SUPPORT_ACCESS"},
     access : SupportAccessDto, subject : {NoSubject}]
    \cup [op : {"SMS_FAILURES_READ"}, access : AnyTenantDto, subject : {NoSubject}]
    \cup [op : {"EVIDENCE_ACCESS_HISTORY_READ"}, access : SupportAccessDto,
          subject : File \cup {NoSubject}]
    \cup [op : {"EVIDENCE_VIEW"}, access : SupportAccessDto, subject : File]
    \cup [op : {"NOTIFICATION_RETRY"}, access : SupportAccessDto, subject : Notification]
\* A service appends a row of its own.
AppendCommand == [op : {"APPEND"}, access : [tenant : Tenant, case : {Blank}, by : User],
                  subject : {NoSubject}]
\* A member registers an evidence file in their group.
RegisterEvidenceFileDto ==
    [op : {"REGISTER"}, access : [tenant : Tenant, case : {Blank}, by : User], subject : File]
Command == SupportCommand \cup AppendCommand \cup RegisterEvidenceFileDto

AuditLogRow ==
    [tenant : Tenant \cup {NoTenant}, no : Nat, case : Case \cup {Blank},
     action : {"AUDIT_LOG_READ", "TRACE_READ", "SUPPORT_ACCESS", "SMS_FAILURES_READ",
               "EVIDENCE_ACCESS_HISTORY_READ", "EVIDENCE_VIEW", "NOTIFICATION_RETRY",
               "NOTIFICATION_RETRY_REQUESTED", "APPEND", "REGISTER"},
     subject : Subject \cup {NoSubject}, request : Request \cup {NoCommand}]

ASSUME SupportAccessAssumption ==
    /\ Notification \subseteq Nat /\ IsFiniteSet(Notification) /\ Holder \subseteq User
    /\ NotificationGroup \in [Notification -> Tenant]
    /\ Instruction \subseteq Command
    /\ PageLimit \in Nat \ {0} /\ MaxInFlight \in Nat
    /\ Blank \notin Case /\ NoSubject \notin Subject /\ NoTenant \notin Tenant
    /\ NoCommand \notin Request
    /\ FirstLog \in Seq(AuditLogRow) /\ FirstSequence \in AuditSequence

\* What is logged already was numbered by the same counter, without gaps.
ASSUME FirstLogNumbered ==
    /\ \A i \in DOMAIN FirstLog : FirstLog[i].request = NoCommand
    /\ \A t \in Tenant :
          LET rows == {i \in DOMAIN FirstLog : FirstLog[i].tenant = t} IN
          /\ \A i, j \in rows : FirstLog[i].no = FirstLog[j].no => i = j
          /\ {FirstLog[i].no : i \in rows} = 1..FirstSequence[t]

VARIABLES
    files,          \* files[f]: the group of an evidence file, NoTenant if it is not there
    delivery,       \* delivery[n]: the status of a notification, see Status
    pc, command,
    drawn,          \* drawn[r]: the number that r has drawn
    cursor,         \* cursor[r]: where r's page begins
    next,           \* next[r]: the cursor after r's page
    walked, due     \* history of a walk up to r: the rows it returned, and those
                    \* that it owes since its first page was read

supportVars == <<files, delivery, pc, command, drawn, cursor, next, walked, due>>
vars == <<auditLogVars, supportVars>>

Status == {"QUEUED", "SENT", "FAILED", "EXHAUSTED"} \* EXHAUSTED: failed, no retries left;
                                                    \* SENT stands for all that is settled
Paged == {"AUDIT_LOG_READ", "SMS_FAILURES_READ", "EVIDENCE_ACCESS_HISTORY_READ"}
EvidenceFile == [File -> Tenant \cup {NoTenant}]
NoCursor == -1      \* asks for the first page, and says that none is left
Cursor == Nat \cup {NoCursor}

Step == {"guard", "registering", "drawing", "inserting", "reading", "permission", "resetting",
         "drawingRetry", "insertingRetry", "sending"}
Finished == {"done", "refused", "crashed"}
InFlight == {r \in Request : pc[r] \in Step}

TypeOK ==
    /\ sequence \in AuditSequence
    /\ log \in Seq(AuditLogRow)
    /\ files \in EvidenceFile
    /\ delivery \in [Notification -> Status]
    /\ pc \in [Request -> {"idle"} \cup Step \cup Finished]
    /\ command \in [Request -> Command \cup {NoCommand}]
    /\ drawn \in [Request -> Nat]
    /\ \A r \in Request : cursor[r] \in Cursor /\ next[r] \in Cursor

Init ==
    /\ AuditLogInit
    /\ files = [f \in File |-> NoTenant]
    /\ delivery \in [Notification -> {"FAILED", "EXHAUSTED"}]
    /\ pc = [r \in Request |-> "idle"]
    /\ command = [r \in Request |-> NoCommand]
    /\ drawn = [r \in Request |-> 0]
    /\ cursor = [r \in Request |-> NoCursor]
    /\ next = [r \in Request |-> NoCursor]
    /\ walked = [r \in Request |-> {}]
    /\ due = [r \in Request |-> {}]

Goto(r, step) == pc' = [pc EXCEPT ![r] = step]
walks == <<cursor, next, walked, due>>
-----------------------------------------------------------------------------
\* RequirePermissionGuard reads the permission of the handler, not of the
\* controller class: SupportController guards its retry only.
Guarded(c) == c.op \in {"EVIDENCE_VIEW", "SUPPORT_ACCESS", "NOTIFICATION_RETRY", "REGISTER"}

\* logSupportAccess turns a blank case or reason away before any statement.
Admitted(c) == IF c \in SupportCommand /\ c.access.case = Blank THEN "refused" ELSE "drawing"

\* Defect: the evidence is read before the access is logged.
ReadsFirst(c) ==
    IF c.op = "EVIDENCE_VIEW" /\ c.access.case # Blank THEN "reading"
    ELSE IF Guarded(c) THEN "guard" ELSE Admitted(c)

FirstStep(c) == IF Guarded(c) THEN "guard" ELSE Admitted(c)

Issue(r, c) ==
    /\ pc[r] = "idle"
    /\ Cardinality(InFlight) < MaxInFlight
    /\ command' = [command EXCEPT ![r] = c]
    /\ Goto(r, FirstStep(c))

Arrive(r) ==
    /\ \E c \in Instruction : Issue(r, c)
    /\ UNCHANGED <<auditLogVars, files, delivery, drawn, walks>>

\* The same list again, from the cursor of an answered page.
ArriveForNextPage(r) ==
    \E p \in Request :
        /\ pc[p] = "done" /\ next[p] # NoCursor
        /\ Issue(r, command[p])
        /\ cursor' = [cursor EXCEPT ![r] = next[p]]
        /\ walked' = [walked EXCEPT ![r] = walked[p]]
        /\ due' = [due EXCEPT ![r] = due[p]]
        /\ UNCHANGED <<auditLogVars, files, delivery, drawn, next>>

Guard(r) ==
    LET c == command[r] IN
    /\ pc[r] = "guard"
    /\ Goto(r, IF c.access.by \notin Holder THEN "refused"
               ELSE IF c.op = "REGISTER" THEN "registering" ELSE Admitted(c))
    /\ UNCHANGED <<auditLogVars, files, delivery, command, drawn, walks>>

\* append: the number,
Draw(r) ==
    LET t == command[r].access.tenant IN
    /\ pc[r] = "drawing"
    /\ DrawNumber(t)
    /\ drawn' = [drawn EXCEPT ![r] = NextSequence(t)]
    /\ Goto(r, "inserting")
    /\ UNCHANGED <<files, delivery, command, walks>>

AfterRow(c) ==
    CASE c.op \in {"APPEND", "SUPPORT_ACCESS"} -> "done"
      [] c.op = "NOTIFICATION_RETRY" -> "permission"
      [] OTHER -> "reading"

Row(r, tenant, action, case) ==
    [tenant |-> tenant, no |-> drawn[r], action |-> action, case |-> case,
     subject |-> command[r].subject, request |-> r]

\* and the row.
Insert(r) ==
    /\ pc[r] = "inserting"
    /\ StoreRow(Row(r, command[r].access.tenant, command[r].op, command[r].access.case))
    /\ Goto(r, AfterRow(command[r]))
    /\ UNCHANGED <<files, delivery, command, drawn, walks>>
-----------------------------------------------------------------------------
\* register, with a fresh id.
Register(r) ==
    LET f == command[r].subject IN
    /\ pc[r] = "registering" /\ files[f] = NoTenant
    /\ files' = [files EXCEPT ![f] = command[r].access.tenant]
    /\ Goto(r, "done")
    /\ UNCHANGED <<auditLogVars, delivery, command, drawn, walks>>

\* getByIdForSupport: the file, if it is one of the tenant.
ReadFile(r) ==
    LET c == command[r] IN
    /\ pc[r] = "reading" /\ c.op = "EVIDENCE_VIEW"
    /\ Goto(r, IF files[c.subject] = c.access.tenant THEN "done" ELSE "refused")
    /\ UNCHANGED <<auditLogVars, files, delivery, command, drawn, walks>>

ReadTrace(r) ==
    /\ pc[r] = "reading" /\ command[r].op = "TRACE_READ"
    /\ Goto(r, "done")
    /\ UNCHANGED <<auditLogVars, files, delivery, command, drawn, walks>>

\* The order of the lists: the number of a row, the id of a notification.
Rank(c, x) == IF c.op = "SMS_FAILURES_READ" THEN x ELSE log[x].no

Failed == {n \in Notification : delivery[n] \in {"FAILED", "EXHAUSTED"}}

\* What the list selects: indices of the log, or notifications.
Matching(c) ==
    CASE c.op = "AUDIT_LOG_READ" -> RowsOf(c.access.tenant)
      [] c.op = "EVIDENCE_ACCESS_HISTORY_READ" ->
            {i \in RowsOf(c.access.tenant) :
                /\ log[i].action = "EVIDENCE_VIEW"
                /\ c.subject # NoSubject => log[i].subject = c.subject}
      [] c.op = "SMS_FAILURES_READ" ->
            {n \in Failed : c.access.tenant \in {NoTenant, NotificationGroup[n]}}

Below(c, from) == {x \in Matching(c) : from # NoCursor => Rank(c, x) < from}

\* The first n rows of a list in descending order.
FirstOf(c, rows, n) ==
    {x \in rows : Cardinality({y \in rows : Rank(c, y) > Rank(c, x)}) < n}

\* One row more than the page holds is fetched.
Fetched(c, from) == FirstOf(c, Below(c, from), PageLimit + 1)

\* The row of a page that comes last.
LastOf(c, rows) == CHOOSE x \in rows : \A y \in rows : Rank(c, x) <= Rank(c, y)

\* Defect: the cursor is the row that was fetched in excess.
CursorOfExcess(c, rows) ==
    IF Cardinality(rows) > PageLimit THEN Rank(c, LastOf(c, rows)) ELSE NoCursor

NextCursor(c, rows) ==
    IF Cardinality(rows) > PageLimit
    THEN Rank(c, LastOf(c, FirstOf(c, rows, PageLimit))) ELSE NoCursor

ReadPage(r) ==
    LET c == command[r]
        rows == Fetched(c, cursor[r])
    IN
    /\ pc[r] = "reading" /\ c.op \in Paged
    /\ next' = [next EXCEPT ![r] = NextCursor(c, rows)]
    /\ walked' = [walked EXCEPT ![r] = @ \cup FirstOf(c, rows, PageLimit)]
    /\ due' = [due EXCEPT ![r] = IF cursor[r] = NoCursor THEN Matching(c) ELSE @]
    /\ Goto(r, "done")
    /\ UNCHANGED <<auditLogVars, files, delivery, command, drawn, cursor>>
-----------------------------------------------------------------------------
\* retryNotification, after the access row: the permission once more.
CheckResend(r) ==
    /\ pc[r] = "permission"
    /\ Goto(r, IF command[r].access.by \in Holder THEN "reading" ELSE "refused")
    /\ UNCHANGED <<auditLogVars, files, delivery, command, drawn, walks>>

FindFailed(r) ==
    /\ pc[r] = "reading" /\ command[r].op = "NOTIFICATION_RETRY"
    /\ Goto(r, IF delivery[command[r].subject] = "FAILED" THEN "resetting" ELSE "refused")
    /\ UNCHANGED <<auditLogVars, files, delivery, command, drawn, walks>>

\* Of the walks that owe n, none does when it is no longer failed.
SetStatus(n, status) ==
    /\ delivery' = [delivery EXCEPT ![n] = status]
    /\ due' = [r \in Request |->
           IF /\ pc[r] # "idle" /\ command[r].op = "SMS_FAILURES_READ"
              /\ status \in {"QUEUED", "SENT"}
           THEN due[r] \ {n} ELSE due[r]]

Reset(r) ==
    /\ pc[r] = "resetting"
    /\ SetStatus(command[r].subject, "QUEUED")
    /\ Goto(r, "drawingRetry")
    /\ UNCHANGED <<auditLogVars, files, command, drawn, cursor, next, walked>>

\* In the log of the notification's group.
DrawForRetry(r) ==
    LET t == NotificationGroup[command[r].subject] IN
    /\ pc[r] = "drawingRetry"
    /\ DrawNumber(t)
    /\ drawn' = [drawn EXCEPT ![r] = NextSequence(t)]
    /\ Goto(r, "insertingRetry")
    /\ UNCHANGED <<files, delivery, command, walks>>

InsertForRetry(r) ==
    /\ pc[r] = "insertingRetry"
    /\ StoreRow(Row(r, NotificationGroup[command[r].subject], "NOTIFICATION_RETRY_REQUESTED",
                    Blank))
    /\ Goto(r, "sending")
    /\ UNCHANGED <<files, delivery, command, drawn, walks>>

\* send, in one step: it leaves what is sent alone, or has any outcome.
SendAgain(r) ==
    LET n == command[r].subject IN
    /\ pc[r] = "sending"
    /\ \/ delivery[n] = "SENT" /\ UNCHANGED <<delivery, due>>
       \/ delivery[n] # "SENT" /\ \E status \in Status : SetStatus(n, status)
    /\ Goto(r, "done")
    /\ UNCHANGED <<auditLogVars, files, command, drawn, cursor, next, walked>>

Crash(r) ==
    /\ pc[r] \in Step
    /\ Goto(r, "crashed")
    /\ UNCHANGED <<auditLogVars, files, delivery, command, drawn, walks>>

Next == \E r \in Request :
    \/ Arrive(r) \/ ArriveForNextPage(r) \/ Guard(r) \/ Draw(r) \/ Insert(r) \/ Register(r)
    \/ ReadFile(r) \/ ReadTrace(r) \/ ReadPage(r)
    \/ CheckResend(r) \/ FindFailed(r) \/ Reset(r) \/ DrawForRetry(r)
    \/ InsertForRetry(r) \/ SendAgain(r) \/ Crash(r)

Spec == Init /\ [][Next]_vars
-----------------------------------------------------------------------------
\* The tenants in whose logs a request writes.
LogsOf(c) ==
    {c.access.tenant} \cup
    IF c.op = "NOTIFICATION_RETRY" THEN {NotificationGroup[c.subject]} ELSE {}

\* Numbers are drawn and rows stored by two statements, in any interleaving
\* and with any crash between them: two rows of a tenant never share a number,
\* and every number up to the counter is in the log, or its request is about
\* to store it, or died before it did.
SequenceAccounted ==
    \A t \in Tenant :
        /\ \A i, j \in RowsOf(t) : log[i].no = log[j].no => i = j
        /\ \A i \in RowsOf(t) : log[i].no \in 1..sequence[t]
        /\ \A n \in 1..sequence[t] :
              \/ \E i \in RowsOf(t) : log[i].no = n
              \/ \E r \in Request : /\ pc[r] \in {"inserting", "insertingRetry", "crashed"}
                                    /\ drawn[r] = n /\ t \in LogsOf(command[r])

\* Whoever follows the cursors to the end has seen every row that the list
\* selected when the first page was read, though rows are stored meanwhile, in
\* another order than that of their numbers; of the failed messages, those
\* that stayed failed.
WalksLoseNothing ==
    \A r \in Request : pc[r] = "done" /\ command[r].op \in Paged /\ next[r] = NoCursor
        => due[r] \subseteq walked[r]

\* A support request that has got as far as the tenant's data has its row in
\* that tenant's log, under its case and about its file or notification, and
\* one that was turned away for a blank case has none; a notification is reset
\* for a retry whose access row is stored before the row of the retry itself.
AccessIsLogged ==
    \A r \in Request : pc[r] # "idle" /\ command[r] \in SupportCommand =>
        LET c == command[r]
            rows == {i \in DOMAIN log : log[i].request = r /\ log[i].action = c.op}
        IN  /\ pc[r] \in {"reading", "permission", "resetting", "drawingRetry",
                          "insertingRetry", "sending", "done"} =>
                  \E i \in rows : /\ log[i].tenant = c.access.tenant
                                  /\ log[i].case = c.access.case /\ log[i].subject = c.subject
            /\ c.access.case = Blank => rows = {}
            /\ \A j \in DOMAIN log :
                  log[j].request = r /\ log[j].action = "NOTIFICATION_RETRY_REQUESTED"
                  => \E i \in rows : i < j
=============================================================================
