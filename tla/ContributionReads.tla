-------------------------- MODULE ContributionReads --------------------------
(***************************************************************************)
(* What is read of contributions: ContributionReadService                  *)
(* (backend/src/contribution/contribution-read.service.ts) and the trace   *)
(* of a contribution (support/entity-trace.service.ts), as operators on    *)
(* the tables of Contributions.  A list is one query, hence one state; the *)
(* trace is one state here, where the code makes five queries.             *)
(***************************************************************************)
EXTENDS Contributions

CONSTANTS
    Meeting, NoMeeting,
    ModeOf,     \* ModeOf[m][k]: the transactionMode of m's contribution under key k
    MeetingOf,  \* MeetingOf[m][k]: its meeting, or NoMeeting
    DayOf,      \* DayOf[m][k]: the day on which it is recorded
    PageSize    \* bound: the rows that one list returns, 500 in the code

TransactionMode == {"CASH", "BANK_TRANSFER"}

ASSUME ContributionReadsAssumption ==
    /\ ModeOf \in [Member -> [ContributionKey -> TransactionMode]]
    /\ MeetingOf \in [Member -> [ContributionKey -> Meeting \cup {NoMeeting}]]
    /\ DayOf \in [Member -> [ContributionKey -> Nat]]
    /\ NoMeeting \notin Meeting
    /\ PageSize \in Nat \ {0}

Mode(c) == ModeOf[contributions[c].member][contributions[c].key]
MeetingAt(c) == MeetingOf[contributions[c].member][contributions[c].key]
RecordedAt(c) == DayOf[contributions[c].member][contributions[c].key]
Days == UNION {Range(DayOf[m]) : m \in Member}

\* A filter is the set of values that it lets pass.
ContributionQueryFilters ==
    [member : SUBSET Member, meeting : SUBSET (Meeting \cup {NoMeeting}),
     mode : SUBSET TransactionMode, status : SUBSET {"RECORDED", "REVERSED"},
     days : SUBSET Days, bucket : {{}, {"SAVINGS"}, {"SOCIAL_FUND"}}]

NoFilter ==
    [member |-> Member, meeting |-> Meeting \cup {NoMeeting}, mode |-> TransactionMode,
     status |-> {"RECORDED", "REVERSED"}, days |-> Days, bucket |-> {}]

\* Defect: the status is forgotten.
BuildWhereAnyStatus(tenant, filters) ==
    {c \in Stored : /\ contributions[c].tenant = tenant
                    /\ contributions[c].member \in filters.member
                    /\ MeetingAt(c) \in filters.meeting /\ Mode(c) \in filters.mode
                    /\ RecordedAt(c) \in filters.days
                    /\ \A b \in filters.bucket : AmountIn(contributions[c], b) > 0}

BuildWhere(tenant, filters) ==
    {c \in Stored : /\ contributions[c].tenant = tenant
                    /\ contributions[c].member \in filters.member
                    /\ MeetingAt(c) \in filters.meeting /\ Mode(c) \in filters.mode
                    /\ contributions[c].status \in filters.status
                    /\ RecordedAt(c) \in filters.days
                    /\ \A b \in filters.bucket : AmountIn(contributions[c], b) > 0}

Total(rows, bucket) == SumFunction([c \in rows |-> AmountIn(contributions[c], bucket)])

\* orderBy recordedAt desc, take: which of the same day come first is open.
LatestPage(rows) ==
    IF Cardinality(rows) <= PageSize THEN {rows}
    ELSE {page \in SUBSET rows :
            /\ Cardinality(page) = PageSize
            /\ \A c \in page, d \in rows \ page : RecordedAt(c) >= RecordedAt(d)}

\* The rows that the lists show; their totals are those of the rows shown.
GetMeetingSummary(tenant, meeting) ==
    BuildWhere(tenant, [NoFilter EXCEPT !.meeting = {meeting}])

GetMemberHistory(tenant, member, filters) ==
    LatestPage(BuildWhere(tenant, [filters EXCEPT !.member = {member}]))

ListByGroupWithFilters(tenant, filters) == LatestPage(BuildWhere(tenant, filters))

\* The legacy list of ContributionService.
ListByGroup(tenant) ==
    LatestPage(BuildWhere(tenant, [NoFilter EXCEPT !.status = {"RECORDED"}]))

ByMode(rows, mode, bucket) == Total({c \in rows : Mode(c) = mode}, bucket)

GetUnreconciledBankTransfers(tenant, filters) ==
    BuildWhere(tenant, [filters EXCEPT !.mode = {"BANK_TRANSFER"}, !.status = {"RECORDED"}])

\* The meeting, or the day of a contribution that has none.
GroupKey(groupBy, c) ==
    IF groupBy = "meeting" /\ MeetingAt(c) # NoMeeting THEN <<"meeting", MeetingAt(c)>>
    ELSE <<"date", RecordedAt(c)>>

GetCashTotalsByMeetingOrDate(tenant, groupBy, filters, bucket) ==
    LET cash == BuildWhere(tenant, [filters EXCEPT !.mode = {"CASH"}, !.status = {"RECORDED"}])
    IN  [key \in {GroupKey(groupBy, c) : c \in cash} |->
            Total({c \in cash : GroupKey(groupBy, c) = key}, bucket)]

\* LedgerBalanceService: all lines of the group, the group's own among them.
GetGroupTotal(tenant, bucket) ==
    SumFunction([m \in Member \cup {GroupAccount} |->
                    Ledger!MemberBalance(events, tenant, m, bucket)])

\* Defect: the reversals are not looked up.
TraceOriginalOnly(c) == {contributions[c].ledgerEvent}

\* The ledger events that the trace of c shows: its own, and those that the
\* CONTRIBUTION_REVERSED rows of the audit trail name.
GetContributionTrace(c) ==
    {contributions[c].ledgerEvent}
    \cup {a.event : a \in {x \in trail : x.action = "CONTRIBUTION_REVERSED" /\ x.entity = c}}
-----------------------------------------------------------------------------
\* Nothing at work, nothing lost, no event reversed twice: when the tables are
\* expected to agree.
Settled ==
    /\ Quiet
    /\ \A e \in Ledger!Ids(events) : Cardinality(Ledger!ReversalsOf(events, e)) <= 1

\* A client gives a key to one contribution: what it sends again under the key
\* has the same member and amounts.  The code compares none of them.
OneContentPerKey ==
    \A s, t \in Submission : \A i \in DOMAIN s.items, j \in DOMAIN t.items :
        LET a == s.items[i]
            b == t.items[j]
        IN  /\ s.tenant = t.tenant /\ a.key = b.key
            /\ ValidItem(s.tenant, a) /\ ValidItem(t.tenant, b)
            => a.member = b.member /\ a.savings = b.savings /\ a.social = b.social

LedgerTotal(tenant, bucket) ==
    SumFunction([m \in Member |-> Ledger!MemberBalance(events, tenant, m, bucket)])

\* The two reports of the treasurer, cash by meeting or by date and the bank
\* transfers to reconcile, add up to what the ledger says the members have,
\* whatever was reversed or recorded outside meetings; the group's total of the
\* ledger is no such sum, as the group's own lines take it back to zero.
ReportsMatchLedger ==
    Settled =>
        \A t \in Tenant, b \in {"SAVINGS", "SOCIAL_FUND"}, groupBy \in {"meeting", "date"} :
            /\ SumFunction(GetCashTotalsByMeetingOrDate(t, groupBy, NoFilter, b))
                 + Total(GetUnreconciledBankTransfers(t, NoFilter), b) = LedgerTotal(t, b)
            /\ GetGroupTotal(t, b) = 0

\* The trace of a contribution shows its event and every reversal of it, but
\* for a reversal whose request has not come to its audit row, or died before:
\* that one the trace never shows, though the balance has it.
TraceShowsLedger ==
    \A c \in Stored :
        LET of == contributions[c].ledgerEvent
            inLedger == {of} \cup Ledger!ReversalsOf(events, of)
        IN  /\ GetContributionTrace(c) \subseteq inLedger
            /\ \A e \in inLedger \ GetContributionTrace(c) :
                  pc[e[1]] \in {"reversing", "auditReversal", "crashed"}
=============================================================================
