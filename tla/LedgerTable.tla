---------------------------- MODULE LedgerTable ----------------------------
(***************************************************************************)
(* The rows of the ledger tables (LedgerEvent with its nested LedgerLines) *)
(* and the queries that the services run on them.  The table is a function *)
(* from event ids to rows: an id that names no row yet maps to NoEvent.    *)
(* There is no action here: LedgerPosting, Contributions and LedgerBook    *)
(* each keep an `events' variable of this shape.                           *)
(***************************************************************************)
EXTENDS Integers, Sequences, Functions

CONSTANTS
    Tenant,         \* groups; every row belongs to one
    Member,
    GroupAccount,   \* the memberId null of a group-level line
    FundBucket,     \* FUND_BUCKET_VALUES
    Key,            \* idempotency keys
    NoKey,          \* the absent idempotency key
    NoEvent         \* the null of an event reference

ASSUME LedgerTableAssumption ==
    /\ GroupAccount \notin Member
    /\ NoKey \notin Key

\* One signed posting to a member's (or the group's) account in a bucket.
Line == [member : Member \cup {GroupAccount}, bucket : FundBucket, amount : Int]

\* A row; `reverses' is the column reversalOfLedgerEventId.
EventRow(Id) ==
    [tenant : Tenant, key : Key \cup {NoKey}, lines : Seq(Line),
     reverses : Id \cup {NoEvent}]

Ids(events) == {e \in DOMAIN events : events[e] # NoEvent}

SumOf(lines) == SumFunction([i \in DOMAIN lines |-> lines[i].amount])

Balanced(lines) == SumOf(lines) = 0

\* The lines of a reversal: same accounts, opposite signs.
Negate(lines) ==
    [i \in DOMAIN lines |-> [lines[i] EXCEPT !.amount = 0 - lines[i].amount]]

\* findUnique({ where: { idempotencyKey } }): the ids of the rows with the key.
ByKey(events, key) == {e \in Ids(events) : events[e].key = key}

\* findFirst({ where: { reversalOfLedgerEventId } })
ReversalsOf(events, original) == {e \in Ids(events) : events[e].reverses = original}

\* Defect: the unique index is missing from the schema.
KeyFreeNoIndex(events, key) == TRUE

\* The unique index on idempotencyKey; a null key conflicts with nothing.
KeyFree(events, key) == key = NoKey \/ ByKey(events, key) = {}

\* What one event's lines add to the account of m in bucket b.
LineSum(lines, m, b) ==
    SumOf([i \in {j \in DOMAIN lines : lines[j].member = m /\ lines[j].bucket = b}
            |-> lines[i]])

\* getMemberBalance: the sum over all of the tenant's lines for m and b.
MemberBalance(events, t, m, b) ==
    SumFunction([e \in {x \in Ids(events) : events[x].tenant = t} |->
                   LineSum(events[e].lines, m, b)])
=============================================================================
