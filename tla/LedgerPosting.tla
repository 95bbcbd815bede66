--------------------------- MODULE LedgerPosting ---------------------------
(***************************************************************************)
(* LedgerPostingService (backend/src/ledger/ledger-posting.service.ts).    *)
(* Each call of post or reversal is a Request.  Prisma runs every query as *)
(* a statement of its own and the service opens no transaction, so a call  *)
(* is one action per awaited statement and calls interleave between them.  *)
(* An event's id is the request that created it.  A request may die before *)
(* any of its statements (process restart, lost database connection).      *)
(***************************************************************************)
EXTENDS LedgerTable, FiniteSets

CONSTANTS
    Request,        \* the calls of one behaviour; a retry is another call
    BucketName,     \* what callers write as fundBucket
    Lines,          \* the line sequences that callers send, valid or not
    MaxInFlight,    \* bound: calls being served at the same time
    NoCommand

PostCommand ==
    [op : {"post"}, tenant : Tenant, key : Key \cup {NoKey}, lines : Lines]
ReverseCommand == [op : {"reverse"}, tenant : Tenant, target : Request]
Command == PostCommand \cup ReverseCommand

ASSUME LedgerPostingAssumption ==
    /\ NoEvent \notin Request
    /\ NoEvent \notin EventRow(Request)
    /\ NoCommand \notin Command
    /\ MaxInFlight \in Nat

ASSUME LinesAssumption ==
    Lines \subseteq Seq([member : Member \cup {GroupAccount},
                       bucket : BucketName, amount : Int])

VARIABLES
    events,         \* the table LedgerEvent, with its lines
    auditLog,       \* LEDGER_POSTED and LEDGER_REVERSED rows
    pc,             \* pc[r]: the statement that r executes next
    command,        \* command[r]: the arguments of call r
    result          \* result[r]: the event id that r returned

vars == <<events, auditLog, pc, command, result>>

PostStep == {"lookup", "insert", "audit"}
ReversalStep == {"readOriginal", "findReversal", "insertReversal", "auditReversal"}
Step == PostStep \cup ReversalStep
InFlight == {r \in Request : pc[r] \in Step}

\* done: returned an id; refused: threw an error; crashed: never returned
Finished == {"done", "refused", "crashed"}

AuditRow == [action : {"LEDGER_POSTED", "LEDGER_REVERSED"}, entity : Request]

TypeOK ==
    /\ events \in [Request -> EventRow(Request) \cup {NoEvent}]
    /\ auditLog \in SUBSET AuditRow
    /\ pc \in [Request -> {"idle"} \cup Step \cup Finished]
    /\ command \in [Request -> Command \cup {NoCommand}]
    /\ result \in [Request -> Request \cup {NoEvent}]

Init ==
    /\ events = [r \in Request |-> NoEvent]
    /\ auditLog = {}
    /\ pc = [r \in Request |-> "idle"]
    /\ command = [r \in Request |-> NoCommand]
    /\ result = [r \in Request |-> NoEvent]
-----------------------------------------------------------------------------
\* validateCommand; a blank tenantGroupId or sourceEventId is not a Tenant.
ValidCommand(c) ==
    /\ c.lines # <<>>
    /\ Balanced(c.lines)
    /\ \A i \in DOMAIN c.lines :
          c.lines[i].amount # 0 /\ c.lines[i].bucket \in FundBucket

Goto(r, step) == pc' = [pc EXCEPT ![r] = step]

Return(r, event) ==
    /\ result' = [result EXCEPT ![r] = event]
    /\ Goto(r, "done")

\* post is called: validation comes before the first await.
StartPost(r, c) ==
    /\ pc[r] = "idle"
    /\ Cardinality(InFlight) < MaxInFlight
    /\ command' = [command EXCEPT ![r] = c]
    /\ Goto(r, IF ~ValidCommand(c) THEN "refused"
               ELSE IF c.key = NoKey THEN "insert" ELSE "lookup")
    /\ UNCHANGED <<events, auditLog, result>>

\* Defect: the tenant of the event found is not compared.
LookupAnyTenant(r) ==
    /\ pc[r] = "lookup"
    /\ IF ByKey(events, command[r].key) = {}
       THEN Goto(r, "insert") /\ UNCHANGED result
       ELSE \E e \in ByKey(events, command[r].key) : Return(r, e)
    /\ UNCHANGED <<events, auditLog, command>>

\* findUnique by key: return the event found, unless it is another tenant's.
Lookup(r) ==
    /\ pc[r] = "lookup"
    /\ \/ /\ ByKey(events, command[r].key) = {}
          /\ Goto(r, "insert")
          /\ UNCHANGED result
       \/ \E e \in ByKey(events, command[r].key) :
            IF events[e].tenant = command[r].tenant
            THEN Return(r, e)
            ELSE Goto(r, "refused") /\ UNCHANGED result
    /\ UNCHANGED <<events, auditLog, command>>

PostedRow(c) ==
    [tenant |-> c.tenant, key |-> c.key, lines |-> c.lines, reverses |-> NoEvent]

\* Defect: the id is returned before the audit row is appended.
InsertUnaudited(r) ==
    /\ pc[r] = "insert"
    /\ IF KeyFree(events, command[r].key)
       THEN /\ events' = [events EXCEPT ![r] = PostedRow(command[r])]
            /\ Return(r, r)
       ELSE /\ Goto(r, "refused")
            /\ UNCHANGED <<events, result>>
    /\ UNCHANGED <<auditLog, command>>

\* ledgerEvent.create with nested lines: one statement; the unique index on
\* the key makes it throw when another call has inserted the key meanwhile.
Insert(r) ==
    /\ pc[r] = "insert"
    /\ IF KeyFree(events, command[r].key)
       THEN /\ events' = [events EXCEPT ![r] = PostedRow(command[r])]
            /\ Goto(r, "audit")
       ELSE /\ Goto(r, "refused")
            /\ UNCHANGED events
    /\ UNCHANGED <<auditLog, command, result>>

Audit(r) ==
    /\ pc[r] = "audit"
    /\ auditLog' = auditLog \cup {[action |-> "LEDGER_POSTED", entity |-> r]}
    /\ Return(r, r)
    /\ UNCHANGED <<events, command>>
-----------------------------------------------------------------------------
StartReversal(r, c) ==
    /\ pc[r] = "idle"
    /\ Cardinality(InFlight) < MaxInFlight
    /\ command' = [command EXCEPT ![r] = c]
    /\ Goto(r, "readOriginal")
    /\ UNCHANGED <<events, auditLog, result>>

\* findUnique by id; rows never change, so the copy that the service keeps
\* of the original stays equal to the row.
ReadOriginal(r) ==
    /\ pc[r] = "readOriginal"
    /\ LET original == events[command[r].target] IN
         Goto(r, IF original = NoEvent THEN "refused"
                 ELSE IF original.tenant # command[r].tenant THEN "refused"
                 ELSE "findReversal")
    /\ UNCHANGED <<events, auditLog, command, result>>

FindReversal(r) ==
    /\ pc[r] = "findReversal"
    /\ Goto(r, IF ReversalsOf(events, command[r].target) = {}
               THEN "insertReversal" ELSE "refused")
    /\ UNCHANGED <<events, auditLog, command, result>>

\* Defect: the lines of the original are copied with their sign.
ReversalRowSameSign(c) ==
    [tenant |-> c.tenant, key |-> NoKey,
     lines |-> events[c.target].lines, reverses |-> c.target]

ReversalRow(c) ==
    [tenant |-> c.tenant, key |-> NoKey,
     lines |-> Negate(events[c.target].lines), reverses |-> c.target]

\* Nothing in the schema limits an event to one reversal.
InsertReversal(r) ==
    /\ pc[r] = "insertReversal"
    /\ events' = [events EXCEPT ![r] = ReversalRow(command[r])]
    /\ Goto(r, "auditReversal")
    /\ UNCHANGED <<auditLog, command, result>>

AuditReversal(r) ==
    /\ pc[r] = "auditReversal"
    /\ auditLog' = auditLog \cup {[action |-> "LEDGER_REVERSED", entity |-> r]}
    /\ Return(r, r)
    /\ UNCHANGED <<events, command>>

\* The call dies between two statements; what it wrote stays.
Crash(r) ==
    /\ r \in InFlight
    /\ Goto(r, "crashed")
    /\ UNCHANGED <<events, auditLog, command, result>>

Post(r) == (\E c \in PostCommand : StartPost(r, c)) \/ Lookup(r) \/ Insert(r) \/ Audit(r)

Reversal(r) ==
    \/ \E c \in ReverseCommand : StartReversal(r, c)
    \/ ReadOriginal(r)
    \/ FindReversal(r)
    \/ InsertReversal(r)
    \/ AuditReversal(r)

Next == \E r \in Request : Post(r) \/ Reversal(r) \/ Crash(r)

Spec == Init /\ [][Next]_vars

Book == INSTANCE LedgerBook WITH EventId <- Request

-----------------------------------------------------------------------------
\* What the statements of one call rely on from the earlier ones.

\* A call follows the steps of the method that was called, with arguments
\* that passed validation.
CallShape ==
    \A r \in Request :
        /\ pc[r] \in PostStep => command[r] \in PostCommand /\ ValidCommand(command[r])
        /\ pc[r] = "lookup" => command[r].key # NoKey
        /\ pc[r] \in ReversalStep => command[r] \in ReverseCommand
        /\ pc[r] = "done" => command[r] \in Command

\* The id of a call is free until its insert, and after it holds its row.
OwnRow ==
    \A r \in Request :
        /\ pc[r] \in {"idle", "lookup", "insert"} => events[r] = NoEvent
        /\ pc[r] \in {"readOriginal", "findReversal", "insertReversal"} =>
              events[r] = NoEvent
        /\ pc[r] = "audit" => events[r] = PostedRow(command[r])
        /\ pc[r] = "auditReversal" =>
              events[r] # NoEvent /\ events[r].reverses = command[r].target

\* The original that a reversal read is there, in the caller's tenant.
OriginalRead ==
    \A r \in Request :
        pc[r] \in {"findReversal", "insertReversal"} =>
            /\ command[r].target \in Ids(events)
            /\ events[command[r].target].tenant = command[r].tenant

CallInv == CallShape /\ OwnRow /\ OriginalRead
-----------------------------------------------------------------------------
\* README: "a second request with the same key returns the existing event id
\* and does not create duplicate events", also when the two calls overlap or
\* the first one crashed.
OneEventPerKey ==
    \A d, e \in Ids(events) :
        events[d].key = events[e].key /\ events[d].key # NoKey => d = e

\* A post that returned names an event of the caller's tenant, under the
\* caller's key, whichever call created it.
ReturnsOwnEvent ==
    \A r \in Request :
        pc[r] = "done" /\ command[r].op = "post" =>
            /\ result[r] \in Ids(events)
            /\ events[result[r]].tenant = command[r].tenant
            /\ events[result[r]].key = command[r].key
            /\ events[result[r]].reverses = NoEvent

\* A reversal that returned names an event that reverses the one it was asked
\* to reverse.
ReturnsOwnReversal ==
    \A r \in Request :
        pc[r] = "done" /\ command[r].op = "reverse" =>
            /\ result[r] \in Ids(events)
            /\ events[result[r]].reverses = command[r].target

\* README: "new LedgerLine rows have the opposite sign of amountMinor": a
\* reversal is of a stored event of the same tenant and negates its lines.
ReversalNegates ==
    \A e \in Ids(events) :
        events[e].reverses # NoEvent =>
            /\ events[e].reverses \in Ids(events)
            /\ events[e].key = NoKey
            /\ events[e].tenant = events[events[e].reverses].tenant
            /\ events[e].lines = Negate(events[events[e].reverses].lines)

\* The audit log and the ledger agree up to calls that have not reached their
\* audit statement or died before it.
AuditTrail ==
    /\ \A a \in auditLog :
          /\ a.entity \in Ids(events)
          /\ a.action = IF events[a.entity].reverses = NoEvent
                        THEN "LEDGER_POSTED" ELSE "LEDGER_REVERSED"
    /\ \A e \in Ids(events) :
          \/ \E a \in auditLog : a.entity = e
          \/ pc[e] \in {"audit", "auditReversal", "crashed"}

\* The ledger is the append-only book.
ImplementsBook == Book!Spec

=============================================================================
