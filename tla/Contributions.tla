--------------------------- MODULE Contributions ---------------------------
(***************************************************************************)
(* ContributionService (backend/src/contribution/contribution.service.ts): *)
(* record, recordBulk and reversal, composed with LedgerPosting, which     *)
(* serves the ledger calls they make.  One action per awaited statement on *)
(* shared tables.  A call to the ledger, and the row it or its caller      *)
(* inserts, is named <<request, item>>: the item of the request it is for. *)
(* Who may act, and whether groups and meetings exist, is decided outside  *)
(* this module: TurnedAway refuses a request for any such reason.          *)
(***************************************************************************)
EXTENDS Integers, Sequences, FiniteSets, Functions

CONSTANTS
    Tenant, Member, GroupAccount,
    ContributionKey,    \* idempotency keys, as the client sends them
    Evidence,           \* registered evidence files
    Home,               \* Home[x]: the group of a member or an evidence file
    Submission,         \* the record and recordBulk calls that clients make
    Request,            \* the HTTP requests of one behaviour
    MaxItems,           \* bound: items of one bulk request
    MaxInFlight,        \* bound: requests being served at the same time
    TotalDeclared,      \* FALSE: line 126 reads the undeclared totalAmountMinor
    NoKey, NoEvent, NoCommand, NoEvidence, NoContribution

FundBucket == {"SAVINGS", "SOCIAL_FUND", "LOAN_PRINCIPAL", "LOAN_INTEREST",
               "PENALTY", "WAIVER_ADJUSTMENT"}

Call == Request \X (1..MaxItems)

Item == [member : Member, savings : Int, social : Int,
         evidence : Evidence \cup {NoEvidence}, key : ContributionKey]

ReverseCommand == [op : {"reverse"}, tenant : Tenant, target : Call]
Command == Submission \cup ReverseCommand

\* `contribution:${idempotencyKey}': a name space of the ledger's keys.
LedgerKey(key) == <<"contribution", key>>

\* Two lines per bucket with a positive amount: the member's credit and the
\* group's debit.
BucketLines(bucket, member, amount) ==
    IF amount > 0
    THEN <<[member |-> member, bucket |-> bucket, amount |-> amount],
           [member |-> GroupAccount, bucket |-> bucket, amount |-> 0 - amount]>>
    ELSE <<>>

ItemLines(item) ==
    BucketLines("SAVINGS", item.member, item.savings)
        \o BucketLines("SOCIAL_FUND", item.member, item.social)

Items == UNION {Range(s.items) : s \in Submission}

ContributionRow ==
    [tenant : Tenant, member : Member, savings : Int, social : Int,
     evidence : Evidence \cup {NoEvidence}, key : ContributionKey,
     ledgerEvent : Call, status : {"RECORDED", "REVERSED"}]

ASSUME ContributionsAssumption ==
    /\ MaxItems \in Nat \ {0} /\ MaxInFlight \in Nat
    /\ TotalDeclared \in BOOLEAN
    /\ Submission \subseteq [op : {"record", "bulk"}, tenant : Tenant, items : Seq(Item)]
    /\ \A s \in Submission :
          Len(s.items) \in 1..MaxItems /\ (s.op = "record" => Len(s.items) = 1)
    /\ NoCommand \notin Submission
    /\ Home \in [Member \cup Evidence -> Tenant]
    /\ GroupAccount \notin Member
    /\ NoKey \notin {LedgerKey(k) : k \in ContributionKey}
    /\ NoEvent \notin Call
    /\ NoContribution \notin ContributionRow
    /\ NoContribution \notin Call
    /\ NoEvidence \notin Evidence

VARIABLES
    events, auditLog, ledgerPc, ledgerCommand, ledgerResult, \* of LedgerPosting
    contributions,  \* the table Contribution: call -> row or NoContribution
    trail,          \* CONTRIBUTION_RECORDED and CONTRIBUTION_REVERSED audit rows
    pc,             \* pc[r]: what request r does next, or how it ended
    command,        \* command[r]: the arguments of r
    cur,            \* cur[r]: the item r is at
    ids             \* ids[<<r, i>>]: the contribution returned for item i

ledgerVars == <<events, auditLog, ledgerPc, ledgerCommand, ledgerResult>>
vars == <<ledgerVars, contributions, trail, pc, command, cur, ids>>

Ledger == INSTANCE LedgerPosting WITH
    Request <- Call, Key <- {LedgerKey(k) : k \in ContributionKey},
    BucketName <- FundBucket, Lines <- {ItemLines(i) : i \in Items},
    pc <- ledgerPc, command <- ledgerCommand, result <- ledgerResult

\* The nulls of the ledger are none of its rows and commands.
ASSUME LedgerNullsAssumption ==
    NoEvent \notin Ledger!EventRow(Call) /\ NoCommand \notin Ledger!Command

RecordStep == {"prevalidate", "validate", "lookup", "posting", "auditRecord"}
ReversalStep == {"reading", "reversing", "auditReversal"}
Step == RecordStep \cup ReversalStep
Refusal == {"refused", "evidenceRefused", "ledgerRefused"}
Finished == {"done", "crashed"} \cup Refusal
InFlight == {r \in Request : pc[r] \in Step}

Stored == {c \in Call : contributions[c] # NoContribution}
WithKey(key) == {c \in Stored : contributions[c].key = key}

TrailRow ==
    [action : {"CONTRIBUTION_RECORDED", "CONTRIBUTION_REVERSED"}, entity : Call,
     event : Call \cup {NoEvent}]

\* ledgerEventId or reversalLedgerEventId of a row's afterSnapshot: the event
\* that the ledger call of r returned.
Audited(r, act, c) ==
    trail' = trail \cup {[action |-> act, entity |-> c, event |-> ledgerResult[<<r, cur[r]>>]]}

TypeOK ==
    /\ Ledger!TypeOK
    /\ contributions \in [Call -> ContributionRow \cup {NoContribution}]
    /\ trail \in SUBSET TrailRow
    /\ pc \in [Request -> {"idle"} \cup Step \cup Finished]
    /\ command \in [Request -> Command \cup {NoCommand}]
    /\ cur \in [Request -> 1..MaxItems]
    /\ ids \in [Call -> Call \cup {NoContribution}]

Init ==
    /\ Ledger!Init
    /\ contributions = [c \in Call |-> NoContribution]
    /\ trail = {}
    /\ pc = [r \in Request |-> "idle"]
    /\ command = [r \in Request |-> NoCommand]
    /\ cur = [r \in Request |-> 1]
    /\ ids = [c \in Call |-> NoContribution]
-----------------------------------------------------------------------------
Goto(r, step) == pc' = [pc EXCEPT ![r] = step]

\* The item that r is at, and the ledger call that r makes for it.
At(r) == command[r].items[cur[r]]
CallOf(r) == <<r, cur[r]>>

Start(r, c, step) ==
    /\ pc[r] = "idle"
    /\ Cardinality(InFlight) < MaxInFlight
    /\ command' = [command EXCEPT ![r] = c]
    /\ Goto(r, step)
    /\ UNCHANGED <<ledgerVars, contributions, trail, cur, ids>>

\* A check throws: on the item (not ValidItem), or against tables that no
\* action here writes: permission, group, member's status, meeting, repayments
\* linked to the evidence, the policy on evidence for bank transfers.
TurnedAway(r) ==
    /\ pc[r] \in {"prevalidate", "validate", "reading"}
    /\ Goto(r, "refused")
    /\ UNCHANGED <<ledgerVars, contributions, trail, command, cur, ids>>

\* validateAmounts and the member's part of validateTenantMemberMeeting.
ValidItem(tenant, item) ==
    /\ item.savings >= 0 /\ item.social >= 0
    /\ item.savings # 0 \/ item.social # 0
    /\ Home[item.member] = tenant

\* Defect: the evidence file may belong to any contribution.
EvidenceFreeUnchecked(tenant, file) == file # NoEvidence => Home[file] = tenant

\* validateEvidence: a file of the group that no contribution is linked to.
EvidenceFree(tenant, file) ==
    file # NoEvidence =>
        /\ Home[file] = tenant
        /\ \A c \in Stored : contributions[c].evidence # file

Acceptable(r) ==
    /\ ValidItem(command[r].tenant, At(r))
    /\ EvidenceFree(command[r].tenant, At(r).evidence)

\* recordBulk validates every item before it records the first one.
Prevalidate(r) ==
    /\ pc[r] = "prevalidate"
    /\ Acceptable(r)
    /\ IF cur[r] < Len(command[r].items)
       THEN cur' = [cur EXCEPT ![r] = @ + 1] /\ UNCHANGED pc
       ELSE cur' = [cur EXCEPT ![r] = 1] /\ Goto(r, "validate")
    /\ UNCHANGED <<ledgerVars, contributions, trail, command, ids>>

\* record validates the item, before it looks its key up.
Validate(r) ==
    /\ pc[r] = "validate"
    /\ Acceptable(r)
    /\ Goto(r, "lookup")
    /\ UNCHANGED <<ledgerVars, contributions, trail, command, cur, ids>>

EvidenceRefused(r) ==
    /\ pc[r] \in {"prevalidate", "validate"}
    /\ ~EvidenceFree(command[r].tenant, At(r).evidence)
    /\ Goto(r, "evidenceRefused")
    /\ UNCHANGED <<ledgerVars, contributions, trail, command, cur, ids>>

\* record returns c: on to the next item, or done.
Recorded(r, c) ==
    /\ ids' = [ids EXCEPT ![CallOf(r)] = c]
    /\ IF cur[r] < Len(command[r].items)
       THEN cur' = [cur EXCEPT ![r] = @ + 1] /\ Goto(r, "validate")
       ELSE Goto(r, "done") /\ UNCHANGED cur

PostCommand(r) ==
    [op |-> "post", tenant |-> command[r].tenant, key |-> LedgerKey(At(r).key),
     lines |-> ItemLines(At(r))]

\* contribution.findUnique by key: return the row found, unless it is another
\* tenant's; else post to the ledger.
Lookup(r) ==
    /\ pc[r] = "lookup"
    /\ \/ /\ WithKey(At(r).key) = {}
          /\ Ledger!StartPost(CallOf(r), PostCommand(r))
          /\ Goto(r, "posting")
          /\ UNCHANGED <<cur, ids>>
       \/ \E c \in WithKey(At(r).key) :
            /\ IF contributions[c].tenant = command[r].tenant
               THEN Recorded(r, c)
               ELSE Goto(r, "refused") /\ UNCHANGED <<cur, ids>>
            /\ UNCHANGED ledgerVars
    /\ UNCHANGED <<contributions, trail, command>>

\* A statement of the ledger call that r awaits.
LedgerStep(r) ==
    /\ pc[r] \in {"posting", "reversing"}
    /\ \/ Ledger!Lookup(CallOf(r)) \/ Ledger!Insert(CallOf(r)) \/ Ledger!Audit(CallOf(r))
       \/ Ledger!ReadOriginal(CallOf(r)) \/ Ledger!FindReversal(CallOf(r))
       \/ Ledger!InsertReversal(CallOf(r)) \/ Ledger!AuditReversal(CallOf(r))
    /\ UNCHANGED <<contributions, trail, pc, command, cur, ids>>

\* The ledger call threw, and so does r.
LedgerRefused(r) ==
    /\ pc[r] \in {"posting", "reversing"}
    /\ ledgerPc[CallOf(r)] = "refused"
    /\ Goto(r, "ledgerRefused")
    /\ UNCHANGED <<ledgerVars, contributions, trail, command, cur, ids>>
-----------------------------------------------------------------------------
NewContribution(r) ==
    [tenant |-> command[r].tenant, member |-> At(r).member,
     savings |-> At(r).savings, social |-> At(r).social,
     evidence |-> At(r).evidence, key |-> At(r).key,
     ledgerEvent |-> ledgerResult[CallOf(r)], status |-> "RECORDED"]

\* Defect: the unique index on idempotencyKey is missing.
InsertNoIndex(r) ==
    /\ pc[r] = "posting"
    /\ ledgerPc[CallOf(r)] = "done"
    /\ contributions' = [contributions EXCEPT ![CallOf(r)] = NewContribution(r)]
    /\ Goto(r, "auditRecord")
    /\ UNCHANGED <<ledgerVars, trail, command, cur, ids>>

\* Defect: the evidence is checked between the posting and the insert.
InsertChecksEvidence(r) ==
    /\ pc[r] = "posting"
    /\ ledgerPc[CallOf(r)] = "done"
    /\ IF WithKey(At(r).key) = {} /\ EvidenceFree(command[r].tenant, At(r).evidence)
       THEN /\ contributions' = [contributions EXCEPT ![CallOf(r)] = NewContribution(r)]
            /\ Goto(r, "auditRecord")
       ELSE /\ Goto(r, "refused")
            /\ UNCHANGED contributions
    /\ UNCHANGED <<ledgerVars, trail, command, cur, ids>>

\* contribution.create, after the ledger call returned: throws when the key is
\* taken meanwhile, or when the undeclared total is read.
Insert(r) ==
    /\ pc[r] = "posting"
    /\ ledgerPc[CallOf(r)] = "done"
    /\ IF TotalDeclared /\ WithKey(At(r).key) = {}
       THEN /\ contributions' = [contributions EXCEPT ![CallOf(r)] = NewContribution(r)]
            /\ Goto(r, "auditRecord")
       ELSE /\ Goto(r, "refused")
            /\ UNCHANGED contributions
    /\ UNCHANGED <<ledgerVars, trail, command, cur, ids>>

AuditRecord(r) ==
    /\ pc[r] = "auditRecord"
    /\ Audited(r, "CONTRIBUTION_RECORDED", CallOf(r))
    /\ Recorded(r, CallOf(r))
    /\ UNCHANGED <<ledgerVars, contributions, command>>
-----------------------------------------------------------------------------
\* reversal reads the contribution; its ledgerEventId never changes, its
\* status may before MarkReversed.
Read(r) ==
    /\ pc[r] = "reading"
    /\ LET c == command[r].target IN
       IF /\ c \in Stored
          /\ contributions[c].tenant = command[r].tenant
          /\ contributions[c].status # "REVERSED"
       THEN /\ Ledger!StartReversal(CallOf(r),
                   [op |-> "reverse", tenant |-> command[r].tenant,
                    target |-> contributions[c].ledgerEvent])
            /\ Goto(r, "reversing")
       ELSE /\ Goto(r, "refused")
            /\ UNCHANGED ledgerVars
    /\ UNCHANGED <<contributions, trail, command, cur, ids>>

\* Defect: the status update is forgotten.
MarkReversedNever(r) ==
    /\ pc[r] = "reversing"
    /\ ledgerPc[CallOf(r)] = "done"
    /\ Goto(r, "auditReversal")
    /\ UNCHANGED <<ledgerVars, contributions, trail, command, cur, ids>>

MarkReversed(r) ==
    /\ pc[r] = "reversing"
    /\ ledgerPc[CallOf(r)] = "done"
    /\ contributions' = [contributions EXCEPT ![command[r].target].status = "REVERSED"]
    /\ Goto(r, "auditReversal")
    /\ UNCHANGED <<ledgerVars, trail, command, cur, ids>>

AuditReversal(r) ==
    /\ pc[r] = "auditReversal"
    /\ Audited(r, "CONTRIBUTION_REVERSED", command[r].target)
    /\ Goto(r, "done")
    /\ UNCHANGED <<ledgerVars, contributions, command, cur, ids>>

\* The server dies while it serves r, and with it the ledger call of r.
Crash(r) ==
    /\ r \in InFlight
    /\ Goto(r, "crashed")
    /\ \/ Ledger!Crash(CallOf(r))
       \/ CallOf(r) \notin Ledger!InFlight /\ UNCHANGED ledgerVars
    /\ UNCHANGED <<contributions, trail, command, cur, ids>>
-----------------------------------------------------------------------------
Arrive(r) ==
    \/ \E c \in Submission :
          Start(r, c, IF c.op = "bulk" THEN "prevalidate" ELSE "validate")
    \/ \E c \in ReverseCommand : Start(r, c, "reading")

\* What r does once it has arrived.
Advance(r) ==
    \/ TurnedAway(r) \/ EvidenceRefused(r) \/ Prevalidate(r) \/ Validate(r)
    \/ Lookup(r) \/ LedgerStep(r) \/ LedgerRefused(r) \/ Insert(r) \/ AuditRecord(r)
    \/ Read(r) \/ MarkReversed(r) \/ AuditReversal(r)

Next == \E r \in Request : Arrive(r) \/ Advance(r) \/ Crash(r)

Spec == Init /\ [][Next]_vars
-----------------------------------------------------------------------------
\* What the statements of one request rely on from the earlier ones.

\* A request follows the steps of its method, at an item that was validated.
RequestShape ==
    \A r \in Request :
        /\ IF pc[r] = "idle" THEN cur[r] = 1 ELSE command[r] \in Command
        /\ pc[r] \in RecordStep =>
              command[r].op \in {"record", "bulk"} /\ cur[r] \in DOMAIN command[r].items
        /\ pc[r] \in {"lookup", "posting", "auditRecord"} =>
              ValidItem(command[r].tenant, At(r))
        /\ pc[r] \in ReversalStep => command[r].op = "reverse" /\ cur[r] = 1

\* The ledger call of the item at hand is the one that the request awaits; no
\* later item has begun, and the item has a row only after its insert.
OneCall(r) ==
    /\ \A i \in 1..MaxItems :
          pc[r] \in {"idle", "prevalidate"} \/ i > cur[r] =>
              ledgerPc[<<r, i>>] = "idle" /\ contributions[<<r, i>>] = NoContribution
    /\ pc[r] \in {"validate", "lookup", "reading"} => ledgerPc[CallOf(r)] = "idle"
    /\ pc[r] \in {"validate", "lookup", "posting"} \cup ReversalStep =>
          contributions[CallOf(r)] = NoContribution
    /\ pc[r] = "posting" =>
          /\ ledgerPc[CallOf(r)] \in Ledger!PostStep \cup {"done", "refused"}
          /\ ledgerCommand[CallOf(r)] = PostCommand(r)
    /\ pc[r] = "reversing" =>
          ledgerPc[CallOf(r)] \in Ledger!ReversalStep \cup {"done", "refused"}
    /\ pc[r] = "auditRecord" => CallOf(r) \in Stored

OneCallAtATime == \A r \in Request : OneCall(r)

\* A reversal works on the event of the contribution that it read.
ReversalReadBy(r) ==
    /\ pc[r] = "reversing" =>
          /\ command[r].target \in Stored
          /\ ledgerCommand[CallOf(r)] =
                [op |-> "reverse", tenant |-> command[r].tenant,
                 target |-> contributions[command[r].target].ledgerEvent]
          /\ contributions[command[r].target].tenant = command[r].tenant
    /\ pc[r] = "auditReversal" =>
          /\ command[r].target \in Stored
          /\ contributions[command[r].target].status = "REVERSED"

ReversalRead == \A r \in Request : ReversalReadBy(r)

RequestInv == RequestShape /\ OneCallAtATime /\ ReversalRead
-----------------------------------------------------------------------------
\* CONTRIBUTION_API_EXAMPLES.md: a duplicate key "does not double-post": one
\* contribution per key, whatever overlaps, dies or is retried.
OneContributionPerKey ==
    \A c, d \in Stored : contributions[c].key = contributions[d].key => c = d

\* Every contribution names the posted event of its own tenant and key, even
\* when another request posted that event and died or lost the race.
LinkedToItsEvent ==
    \A c \in Stored :
        LET e == contributions[c].ledgerEvent IN
        /\ e \in Ledger!Ids(events)
        /\ events[e].tenant = contributions[c].tenant
        /\ events[e].key = LedgerKey(contributions[c].key)
        /\ events[e].reverses = NoEvent

\* An event posted for a key gets its contribution: it has it already, or a
\* request for the key is still at it, or one died.
PostedIsRecorded ==
    \A e \in Ledger!Ids(events) :
        events[e].reverses = NoEvent =>
            \/ \E c \in Stored : LedgerKey(contributions[c].key) = events[e].key
            \/ \E r \in Request :
                  /\ pc[r] \in {"posting", "crashed"} /\ command[r].op # "reverse"
                  /\ LedgerKey(At(r).key) = events[e].key

\* A contribution is marked REVERSED only after its event was reversed.
ReversedInLedger ==
    \A c \in Stored :
        contributions[c].status = "REVERSED" =>
            Ledger!ReversalsOf(events, contributions[c].ledgerEvent) # {}

\* And a reversed event's contribution is marked, or the request that reversed
\* the event is about to, or it died.
ReversalReachesRow ==
    \A c \in Stored :
        Ledger!ReversalsOf(events, contributions[c].ledgerEvent) # {} =>
            \/ contributions[c].status = "REVERSED"
            \/ \E r \in Request :
                  /\ pc[r] \in {"reversing", "crashed"}
                  /\ command[r].op = "reverse" /\ command[r].target = c

Quiet == InFlight = {} /\ \A r \in Request : pc[r] # "crashed"

AmountIn(row, bucket) == IF bucket = "SAVINGS" THEN row.savings ELSE row.social

\* "Evidence file is already linked to another contribution": one contribution
\* per evidence file.
EvidenceLinkedOnce ==
    \A c, d \in Stored :
        contributions[c].evidence = contributions[d].evidence
            /\ contributions[c].evidence # NoEvidence => c = d

=============================================================================
