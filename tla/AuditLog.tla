------------------------------ MODULE AuditLog ------------------------------
(***************************************************************************)
(* AuditLogService (backend/src/audit): one append-only log, each row with *)
(* a number that is drawn from the counter of its tenant by one statement  *)
(* and stored with the row by the next.  `log` is in the order in which    *)
(* the rows were stored, which need not be the order of their numbers.     *)
(***************************************************************************)
EXTENDS Naturals, Sequences

CONSTANTS
    Tenant, NoTenant,
    FirstLog, FirstSequence     \* the tables at the start

VARIABLES
    sequence,       \* the table AuditSequence: nextValue of each tenant
    log             \* the table AuditLog

\* nextValue of each tenant.
AuditSequence == [Tenant -> Nat]

auditLogVars == <<sequence, log>>

RowsOf(t) == {i \in DOMAIN log : log[i].tenant = t}

AuditLogInit ==
    log = FirstLog /\ sequence = FirstSequence

\* Defect: one more than the last number in the log.
NextOfLog(t) ==
    IF t = NoTenant \/ RowsOf(t) = {} THEN 1
    ELSE 1 + log[CHOOSE i \in RowsOf(t) : \A j \in RowsOf(t) : log[j].no <= log[i].no].no

\* The upsert: 1 for a tenant without a row, one more otherwise.  Null conflicts
\* with nothing: without a tenant every row of the counter is new and says 1.
NextSequence(t) == IF t = NoTenant THEN 1 ELSE sequence[t] + 1

\* nextSequence and create of append.
DrawNumber(t) ==
    /\ sequence' = IF t = NoTenant THEN sequence ELSE [sequence EXCEPT ![t] = NextSequence(t)]
    /\ UNCHANGED log
StoreRow(row) == log' = Append(log, row) /\ UNCHANGED sequence
=============================================================================
