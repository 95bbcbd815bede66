--------------------------- MODULE LoanServicing ---------------------------
(***************************************************************************)
(* The life of an approved loan (backend/src/loan): LoanDisbursement-,     *)
(* LoanRepayment-, LoanWaiver- and LoanRescheduleService, composed with    *)
(* LedgerPosting.  One action per awaited statement on shared tables; what *)
(* a request read stays in its frame until it returns.  Write-offs are     *)
(* always refused by the code and so have no action.  TurnedAway stands    *)
(* for checks on tables that nothing here writes: permission, group,       *)
(* registered evidence, contributions that hold it, reason and approver.   *)
(***************************************************************************)
EXTENDS LoanSchedule, FiniteSets

CONSTANTS
    Tenant, Member, GroupAccount,
    Loan,               \* approved loans
    Contract,           \* Contract[l]: what approval fixed for loan l
    RepaymentKey, Evidence,
    Instruction,        \* the calls that clients make
    Request,            \* the HTTP requests of one behaviour
    MaxInFlight,        \* bound: requests being served at the same time
    NoKey, NoEvent, NoCommand, NoEvidence, NoItem, NoRepayment

FundBucket == {"SAVINGS", "SOCIAL_FUND", "LOAN_PRINCIPAL", "LOAN_INTEREST",
               "PENALTY", "WAIVER_ADJUSTMENT"}

ContractType == [tenant : Tenant, borrower : Member, principal : Nat, terms : Nat, rateBps : Nat]

Disburse == [op : {"disburse"}, tenant : Tenant, loan : Loan]
Repay == [op : {"repay"}, tenant : Tenant, loan : Loan, amount : Int,
          evidence : Evidence \cup {NoEvidence}, key : RepaymentKey]
Waive == [op : {"waive"}, tenant : Tenant, loan : Loan, item : Nat \cup {NoItem}, amount : Nat]
Reschedule == [op : {"reschedule"}, tenant : Tenant, loan : Loan, terms : Int]

\* The name spaces of the ledger's keys.
DisbursementKey(loan) == <<"loan-disbursement", loan>>
LedgerRepaymentKey(key) == <<"loan-repayment", key>>
LedgerKey == {DisbursementKey(l) : l \in Loan} \cup {LedgerRepaymentKey(k) : k \in RepaymentKey}

LedgerLine == [member : Member \cup {GroupAccount}, bucket : FundBucket, amount : Int]

ItemRow ==
    [due : [Part -> Int], paid : [Part -> Int],
     status : {"DUE", "PART_PAID", "PAID", "WAIVED"},
     superseded : Request \cup {NoReschedule}]

RepaymentRow ==
    [loan : Loan, tenant : Tenant, amount : Int, parts : [Part -> Int],
     evidence : Evidence \cup {NoEvidence}, key : RepaymentKey, ledgerEvent : Request]

ASSUME LoanServicingAssumption ==
    /\ Contract \in [Loan -> ContractType]
    /\ \A l \in Loan : Contract[l].principal > 0 /\ Contract[l].terms > 0
    /\ Instruction \subseteq Disburse \cup Repay \cup Waive \cup Reschedule
    /\ MaxInFlight \in Nat
    /\ NoItem \notin Nat
    /\ NoCommand \notin Instruction
    /\ NoEvidence \notin Evidence
    /\ NoReschedule \notin Request
    /\ NoRepayment \notin RepaymentRow /\ NoRepayment \notin Request
    /\ GroupAccount \notin Member
    /\ NoKey \notin LedgerKey
    /\ NoEvent \notin Request

VARIABLES
    events, auditLog, ledgerPc, ledgerCommand, ledgerResult, \* of LedgerPosting
    state,          \* Loan.state
    schedule,       \* LoanScheduleItem: the rows of each loan by installmentNo
    repayments,     \* LoanRepayment: request -> the row it created
    exceptions,     \* LoanWaiverEvent, LoanRescheduleEvent: who created one
    trail,          \* audit rows of the loan services
    pc,             \* pc[r]: what request r does next, or how it ended
    command,        \* command[r]: the arguments of r
    frame           \* frame[r]: what r has read and worked out

ledgerVars == <<events, auditLog, ledgerPc, ledgerCommand, ledgerResult>>
tables == <<state, schedule, repayments, exceptions, trail>>
vars == <<ledgerVars, tables, pc, command, frame>>

Ledger == INSTANCE LedgerPosting WITH
    Key <- LedgerKey, BucketName <- FundBucket, Lines <- Seq(LedgerLine),
    pc <- ledgerPc, command <- ledgerCommand, result <- ledgerResult

\* The nulls of the ledger are none of its rows and commands.
ASSUME LedgerNullsAssumption ==
    NoEvent \notin Ledger!EventRow(Request) /\ NoCommand \notin Ledger!Command

RepayStep == {"evidence", "lookup", "reading", "updating", "counting", "completing"}
WaiveStep == {"waiverEvent", "waiving"}
RescheduleStep == {"rescheduleEvent", "superseding", "creating", "marking"}
Step == {"start", "posting", "audit"} \cup RepayStep \cup WaiveStep \cup RescheduleStep
Refusal == {"refused", "loanRefused"}
Finished == {"done", "crashed"} \cup Refusal
InFlight == {r \in Request : pc[r] \in Step}

LoanState == {"APPROVED", "ACTIVE", "COMPLETED", "RESCHEDULED"}

\* items: schedule rows as read; left: the allocation not yet written to them;
\* todo: instalments of the update loop still to visit.
EmptyFrame == [items |-> <<>>, left |-> Nothing, todo |-> {}]
Frame == [items : Seq(ItemRow), left : [Part -> Int], todo : SUBSET Nat]

Stored == {r \in Request : repayments[r] # NoRepayment}
WithKey(key) == {r \in Stored : repayments[r].key = key}

TypeOK ==
    /\ Ledger!TypeOK
    /\ state \in [Loan -> LoanState]
    /\ schedule \in [Loan -> Seq(ItemRow)]
    /\ repayments \in [Request -> RepaymentRow \cup {NoRepayment}]
    /\ exceptions \in SUBSET Request
    /\ trail \in SUBSET Request
    /\ pc \in [Request -> {"idle"} \cup Step \cup Finished]
    /\ command \in [Request -> Instruction \cup {NoCommand}]
    /\ frame \in [Request -> Frame]

Init ==
    /\ Ledger!Init
    /\ state = [l \in Loan |-> "APPROVED"]
    /\ schedule = [l \in Loan |-> GenerateSchedule(Contract[l].principal, Contract[l].terms,
                                                   Contract[l].rateBps)]
    /\ repayments = [r \in Request |-> NoRepayment]
    /\ exceptions = {} /\ trail = {}
    /\ pc = [r \in Request |-> "idle"]
    /\ command = [r \in Request |-> NoCommand]
    /\ frame = [r \in Request |-> EmptyFrame]
-----------------------------------------------------------------------------
Goto(r, step) == pc' = [pc EXCEPT ![r] = step]

\* r returns, throws or dies; its local variables go.
Leave(r, how) == Goto(r, how) /\ frame' = [frame EXCEPT ![r] = EmptyFrame]

LoanOf(r) == command[r].loan

Arrive(r) ==
    /\ pc[r] = "idle"
    /\ Cardinality(InFlight) < MaxInFlight
    /\ \E c \in Instruction : command' = [command EXCEPT ![r] = c]
    /\ Goto(r, "start")
    /\ UNCHANGED <<ledgerVars, tables, frame>>

TurnedAway(r) ==
    /\ pc[r] \in {"start", "evidence"}
    /\ Leave(r, "refused")
    /\ UNCHANGED <<ledgerVars, tables, command>>

\* What each service wants of it.
StateWanted(r) == IF command[r].op = "disburse" THEN "APPROVED" ELSE "ACTIVE"

\* Defect: the state of the loan is not looked at.
ReadAnyState(r) == Contract[LoanOf(r)].tenant = command[r].tenant

ReadAsWanted(r) ==
    /\ Contract[LoanOf(r)].tenant = command[r].tenant
    /\ state[LoanOf(r)] = StateWanted(r)

\* The loan is another group's, or not in that state.
LoanRefused(r) ==
    /\ pc[r] = "start"
    /\ ~ReadAsWanted(r)
    /\ Leave(r, "loanRefused")
    /\ UNCHANGED <<ledgerVars, tables, command>>

\* A statement of the ledger call that r awaits.
LedgerStep(r) ==
    /\ pc[r] = "posting"
    /\ Ledger!Lookup(r) \/ Ledger!Insert(r) \/ Ledger!Audit(r)
    /\ UNCHANGED <<tables, pc, command, frame>>

LedgerReturned(r) == ledgerPc[r] = "done"

\* The ledger call threw, and so does r.
LedgerRefused(r) ==
    /\ pc[r] = "posting"
    /\ ledgerPc[r] = "refused"
    /\ Leave(r, "refused")
    /\ UNCHANGED <<ledgerVars, tables, command>>

\* auditLog.append, the last statement of every service.
AppendAudit(r) ==
    /\ pc[r] = "audit"
    /\ trail' = trail \cup {r}
    /\ Leave(r, "done")
    /\ UNCHANGED <<ledgerVars, state, schedule, repayments, exceptions, command>>
-----------------------------------------------------------------------------
\* Two lines: the member's, and the group's with the opposite sign.
Pair(bucket, member, amount) ==
    <<[member |-> member, bucket |-> bucket, amount |-> amount],
      [member |-> GroupAccount, bucket |-> bucket, amount |-> 0 - amount]>>

DisburseCommand(r) ==
    [op |-> "post", tenant |-> command[r].tenant, key |-> DisbursementKey(LoanOf(r)),
     lines |-> Pair("LOAN_PRINCIPAL", Contract[LoanOf(r)].borrower, Contract[LoanOf(r)].principal)]

\* recordDisbursement reads the loan and posts its principal to the ledger.
ReadForDisbursement(r) ==
    /\ pc[r] = "start" /\ command[r].op = "disburse"
    /\ ReadAsWanted(r)
    /\ Ledger!StartPost(r, DisburseCommand(r))
    /\ Goto(r, "posting")
    /\ UNCHANGED <<tables, command, frame>>

\* loan.update to ACTIVE, whatever the state has become since it was read.
Activate(r) ==
    /\ pc[r] = "posting" /\ command[r].op = "disburse"
    /\ LedgerReturned(r)
    /\ state' = [state EXCEPT ![LoanOf(r)] = "ACTIVE"]
    /\ Goto(r, "audit")
    /\ UNCHANGED <<ledgerVars, schedule, repayments, exceptions, trail, command, frame>>

-----------------------------------------------------------------------------
\* recordRepayment reads the loan with its schedule items.
ReadForRepayment(r) ==
    /\ pc[r] = "start" /\ command[r].op = "repay"
    /\ ReadAsWanted(r)
    /\ IF command[r].amount > 0
       THEN /\ frame' = [frame EXCEPT ![r].items = schedule[LoanOf(r)]]
            /\ Goto(r, "evidence")
       ELSE Leave(r, "refused")
    /\ UNCHANGED <<ledgerVars, tables, command>>

\* The evidence may not be linked to another repayment.
CheckEvidence(r) ==
    /\ pc[r] = "evidence"
    /\ IF \E q \in Stored : /\ repayments[q].evidence = command[r].evidence
                            /\ command[r].evidence # NoEvidence
       THEN Leave(r, "refused")
       ELSE Goto(r, "lookup") /\ UNCHANGED frame
    /\ UNCHANGED <<ledgerVars, tables, command>>

\* The allocation of the amount over the schedule as it was read.
AllocationOf(r) == Allocation(command[r].amount, frame[r].items)

BucketOf == [principal |-> "LOAN_PRINCIPAL", interest |-> "LOAN_INTEREST", penalty |-> "PENALTY"]

PartLines(r, part) ==
    LET amount == AllocationOf(r)[part] IN
    IF amount > 0 THEN Pair(BucketOf[part], Contract[LoanOf(r)].borrower, 0 - amount) ELSE <<>>

RepayCommand(r) ==
    [op |-> "post", tenant |-> command[r].tenant, key |-> LedgerRepaymentKey(command[r].key),
     lines |-> PartLines(r, "principal") \o PartLines(r, "interest") \o PartLines(r, "penalty")]

\* Defect: what exceeds the debt is dropped.
PartlyAllocated(r) == Total(AllocationOf(r)) # 0

FullyAllocated(r) == AllocationOf(r) \in Split(command[r].amount)

\* findUnique by key: return the repayment found, unless it is another
\* tenant's; else post to the ledger, if all of the amount is outstanding.
LookupRepayment(r) ==
    /\ pc[r] = "lookup"
    /\ \/ /\ WithKey(command[r].key) = {}
          /\ FullyAllocated(r)
          /\ Ledger!StartPost(r, RepayCommand(r))
          /\ frame' = [frame EXCEPT ![r].left = AllocationOf(r)]
          /\ Goto(r, "posting")
       \/ /\ WithKey(command[r].key) = {}
          /\ ~FullyAllocated(r)
          /\ Leave(r, "refused")
          /\ UNCHANGED ledgerVars
       \/ \E q \in WithKey(command[r].key) :
            /\ Leave(r, IF repayments[q].tenant = command[r].tenant THEN "done" ELSE "refused")
            /\ UNCHANGED ledgerVars
    /\ UNCHANGED <<tables, command>>

NewRepayment(r) ==
    [loan |-> LoanOf(r), tenant |-> command[r].tenant, amount |-> command[r].amount,
     parts |-> frame[r].left, evidence |-> command[r].evidence, key |-> command[r].key,
     ledgerEvent |-> ledgerResult[r]]

\* Defect: the unique index is missing.
KeyNeverTaken(r) == FALSE

\* Defect: the state of the loan is checked again, after the ledger posted.
KeyTakenOrClosed(r) == WithKey(command[r].key) # {} \/ state[LoanOf(r)] # "ACTIVE"

KeyTaken(r) == WithKey(command[r].key) # {}

\* loanRepayment.create; throws when the key is taken meanwhile.
InsertRepayment(r) ==
    /\ pc[r] = "posting" /\ command[r].op = "repay"
    /\ LedgerReturned(r)
    /\ IF KeyTaken(r)
       THEN Leave(r, "refused") /\ UNCHANGED repayments
       ELSE /\ repayments' = [repayments EXCEPT ![r] = NewRepayment(r)]
            /\ Goto(r, "reading") /\ UNCHANGED frame
    /\ UNCHANGED <<ledgerVars, state, schedule, exceptions, trail, command>>

\* updateScheduleItemsFromAllocation reads the payable items anew.
ReadSchedule(r) ==
    /\ pc[r] = "reading"
    /\ frame' = [frame EXCEPT ![r].items = schedule[LoanOf(r)],
                             ![r].todo = Payable(schedule[LoanOf(r)])]
    /\ Goto(r, "updating")
    /\ UNCHANGED <<ledgerVars, tables, command>>

WriteItem(loan, n, columns) ==
    schedule' = [schedule EXCEPT ![loan][n] =
                    [@ EXCEPT !.paid = columns.paid, !.status = columns.status]]

NothingLeft(r) == \A part \in Part : frame[r].left[part] <= 0

\* One turn of its loop: write the next item's columns from the item as read.
UpdateItem(r) ==
    /\ pc[r] = "updating"
    /\ \/ /\ frame[r].todo = {} \/ NothingLeft(r)
          /\ Goto(r, "counting") /\ UNCHANGED <<schedule, frame>>
       \/ /\ ~NothingLeft(r)
          /\ \E n \in frame[r].todo :
               /\ \A k \in frame[r].todo : n <= k
               /\ WriteItem(LoanOf(r), n, Repaid(frame[r].items[n], frame[r].left))
               /\ frame' = [frame EXCEPT ![r].left = Minus(@, Share(frame[r].items[n], @)),
                                        ![r].todo = @ \ {n}]
          /\ UNCHANGED pc
    /\ UNCHANGED <<ledgerVars, state, repayments, exceptions, trail, command>>

\* Defect: a part payment counts as paid.
NoneDue(loan) ==
    \A n \in Active(schedule[loan]) : schedule[loan][n].status # "DUE"

AllPaid(loan) ==
    \A n \in Active(schedule[loan]) : schedule[loan][n].status = "PAID"

\* The count of items that are not PAID.
CountUnpaid(r) ==
    /\ pc[r] = "counting"
    /\ Goto(r, IF AllPaid(LoanOf(r)) THEN "completing" ELSE "audit")
    /\ UNCHANGED <<ledgerVars, tables, command, frame>>

Complete(r) ==
    /\ pc[r] = "completing"
    /\ state' = [state EXCEPT ![LoanOf(r)] = "COMPLETED"]
    /\ Goto(r, "audit")
    /\ UNCHANGED <<ledgerVars, schedule, repayments, exceptions, trail, command, frame>>

-----------------------------------------------------------------------------
\* recordWaiver and recordReschedule read the loan with its schedule items.
ReadForException(r) ==
    /\ pc[r] = "start" /\ command[r].op \in {"waive", "reschedule"}
    /\ ReadAsWanted(r)
    /\ LET items == schedule[LoanOf(r)] IN
       IF command[r].op = "waive"
       THEN /\ frame' = [frame EXCEPT ![r].items = items]
            /\ Goto(r, "waiverEvent")
       ELSE IF command[r].terms >= 1 /\ OutstandingPrincipal(items) \in Nat \ {0}
       THEN /\ frame' = [frame EXCEPT ![r].items = items]
            /\ Goto(r, "rescheduleEvent")
       ELSE Leave(r, "refused")
    /\ UNCHANGED <<ledgerVars, tables, command>>

\* loanWaiverEvent.create or loanRescheduleEvent.create.
InsertException(r) ==
    /\ pc[r] \in {"waiverEvent", "rescheduleEvent"}
    /\ exceptions' = exceptions \cup {r}
    /\ Goto(r, IF pc[r] = "waiverEvent" THEN "waiving" ELSE "superseding")
    /\ UNCHANGED <<ledgerVars, state, schedule, repayments, trail, command, frame>>

\* The waiver names an instalment that was active when the loan was read.
WaivesItem(r) ==
    /\ command[r].amount > 0
    /\ command[r].item \in Active(frame[r].items)

\* loanScheduleItem.update with the columns worked out from the item as read;
\* the principal column is not written.
WaiveItem(r) ==
    /\ pc[r] = "waiving"
    /\ LET n == command[r].item
           columns == Waived(frame[r].items[n], command[r].amount)
           principal == schedule[LoanOf(r)][n].paid["principal"]
       IN  IF WaivesItem(r)
           THEN WriteItem(LoanOf(r), n, [columns EXCEPT !.paid["principal"] = principal])
           ELSE UNCHANGED schedule
    /\ Goto(r, "audit")
    /\ UNCHANGED <<ledgerVars, state, repayments, exceptions, trail, command, frame>>

Superseded(items, event) ==
    [n \in DOMAIN items |-> IF n \in Active(items)
                            THEN [items[n] EXCEPT !.superseded = event] ELSE items[n]]

\* updateMany: every row that is active now.
Supersede(r) ==
    /\ pc[r] = "superseding"
    /\ schedule' = [schedule EXCEPT ![LoanOf(r)] = Superseded(@, r)]
    /\ Goto(r, "creating")
    /\ UNCHANGED <<ledgerVars, state, repayments, exceptions, trail, command, frame>>

\* Defect: the new schedule spreads the whole principal again.
NewItemsWhole(r) ==
    GenerateSchedule(Contract[LoanOf(r)].principal, command[r].terms, Contract[LoanOf(r)].rateBps)

\* The principal outstanding when the loan was read, over the new terms.
NewItems(r) ==
    GenerateSchedule(OutstandingPrincipal(frame[r].items), command[r].terms,
                     Contract[LoanOf(r)].rateBps)

\* createMany: numbered from the last instalment read; (loan, number) is unique.
CreateItems(r) ==
    /\ pc[r] = "creating"
    /\ IF Len(schedule[LoanOf(r)]) = Len(frame[r].items)
       THEN /\ schedule' = [schedule EXCEPT ![LoanOf(r)] = @ \o NewItems(r)]
            /\ Goto(r, "marking") /\ UNCHANGED frame
       ELSE Leave(r, "refused") /\ UNCHANGED schedule
    /\ UNCHANGED <<ledgerVars, state, repayments, exceptions, trail, command>>

\* loan.update to RESCHEDULED, whatever the state has become.
MarkRescheduled(r) ==
    /\ pc[r] = "marking"
    /\ state' = [state EXCEPT ![LoanOf(r)] = "RESCHEDULED"]
    /\ Goto(r, "audit")
    /\ UNCHANGED <<ledgerVars, schedule, repayments, exceptions, trail, command, frame>>

-----------------------------------------------------------------------------
\* The server dies while it serves r, and with it the ledger call of r.
Crash(r) ==
    /\ r \in InFlight
    /\ Leave(r, "crashed")
    /\ \/ Ledger!Crash(r)
       \/ r \notin Ledger!InFlight /\ UNCHANGED ledgerVars
    /\ UNCHANGED <<tables, command>>

Disbursement(r) == ReadForDisbursement(r) \/ Activate(r)
Repayment(r) ==
    \/ ReadForRepayment(r) \/ CheckEvidence(r) \/ LookupRepayment(r)
    \/ InsertRepayment(r) \/ ReadSchedule(r) \/ UpdateItem(r)
    \/ CountUnpaid(r) \/ Complete(r)
Rescheduling(r) == Supersede(r) \/ CreateItems(r) \/ MarkRescheduled(r)

\* What r does once it has arrived.
Advance(r) ==
    \/ TurnedAway(r) \/ LoanRefused(r) \/ LedgerStep(r) \/ LedgerRefused(r)
    \/ Disbursement(r) \/ Repayment(r) \/ ReadForException(r) \/ InsertException(r)
    \/ WaiveItem(r) \/ Rescheduling(r) \/ AppendAudit(r)

Next == \E r \in Request : Arrive(r) \/ Advance(r) \/ Crash(r)

Spec == Init /\ [][Next]_vars
-----------------------------------------------------------------------------
\* What the statements of one request rely on from the earlier ones.

\* No part of an instalment is paid beyond what is due on it, and a PAID one
\* has nothing outstanding.
AddsUp(item) ==
    /\ \A part \in Part : 0 <= item.paid[part] /\ item.paid[part] <= item.due[part]
    /\ item.status = "PAID" => item.paid = item.due

\* r is at a step of its own service; the ledger is called once, from the
\* posting step; rows are there from their insert on.
Handler(r) ==
    /\ pc[r] \in Step => command[r] \in Instruction
    /\ pc[r] = "posting" => command[r].op \in {"disburse", "repay"}
    /\ pc[r] \in RepayStep => command[r].op = "repay"
    /\ pc[r] \in WaiveStep => command[r].op = "waive"
    /\ pc[r] \in RescheduleStep => command[r].op = "reschedule"
    /\ pc[r] \in {"idle", "start", "evidence", "lookup"} =>
          ledgerPc[r] = "idle" /\ repayments[r] = NoRepayment
    /\ pc[r] = "posting" =>
          /\ ledgerPc[r] \in Ledger!PostStep \cup {"done", "refused"}
          /\ repayments[r] = NoRepayment
          /\ ledgerCommand[r].tenant = command[r].tenant
          /\ ledgerCommand[r].op = "post"
          /\ ledgerCommand[r].key =
                IF command[r].op = "disburse" THEN DisbursementKey(LoanOf(r))
                ELSE LedgerRepaymentKey(command[r].key)
    /\ pc[r] \in {"reading", "updating", "counting", "completing"} => r \in Stored
    /\ pc[r] \in {"waiving", "superseding", "creating", "marking"} => r \in exceptions
    /\ pc[r] \in Step \ {"start"} /\ command[r].op # "disburse" => state[LoanOf(r)] # "APPROVED"
    /\ pc[r] = "audit" =>
          \/ command[r].op = "disburse" /\ state[LoanOf(r)] # "APPROVED"
          \/ command[r].op = "repay" /\ r \in Stored
          \/ command[r].op \in {"waive", "reschedule"} /\ r \in exceptions

\* The instalments that r holds are older versions of rows of its loan, and
\* what it still has to write is part of a sound allocation.
FrameInv(r) ==
    /\ pc[r] \notin Step => frame[r] = EmptyFrame
    /\ \A n \in DOMAIN frame[r].items :
          /\ n \in DOMAIN schedule[LoanOf(r)]
          /\ frame[r].items[n].due = schedule[LoanOf(r)][n].due
          /\ AddsUp(frame[r].items[n])
    /\ frame[r].todo \subseteq DOMAIN frame[r].items
    /\ \A part \in Part : frame[r].left[part] >= 0
    /\ pc[r] = "posting" /\ command[r].op = "repay" => frame[r].left \in Split(command[r].amount)
    /\ pc[r] \in RescheduleStep \ {"marking"} =>
          command[r].terms >= 1 /\ OutstandingPrincipal(frame[r].items) \in Nat \ {0}

HandlerInv == \A r \in Request : Handler(r) /\ FrameInv(r)
-----------------------------------------------------------------------------
\* loan/README.md: "Idempotent by idempotencyKey": one repayment per key,
\* whatever overlaps, dies or is retried.
OneRepaymentPerKey ==
    \A q, r \in Stored : repayments[q].key = repayments[r].key => q = r

Posted(key) == Ledger!ByKey(events, key)

\* Every repayment names the event under its own tenant and key, even if
\* another request posted it, and its parts make up its amount.
RepaymentIsPosted ==
    \A r \in Stored :
        /\ repayments[r].ledgerEvent \in Posted(LedgerRepaymentKey(repayments[r].key))
        /\ events[repayments[r].ledgerEvent].tenant = repayments[r].tenant
        /\ Total(repayments[r].parts) = repayments[r].amount

\* A loan that is not APPROVED any more has been posted as disbursed.
DisbursedIsPosted ==
    \A l \in Loan : state[l] # "APPROVED" => Posted(DisbursementKey(l)) # {}

LoansOf(t, m) == {l \in Loan : Contract[l].tenant = t /\ Contract[l].borrower = m}

\* A posted repayment gets its row: it has it, or a request for the key is
\* still at it, or one died.
PostedIsRecorded ==
    \A k \in RepaymentKey :
        Posted(LedgerRepaymentKey(k)) # {} =>
            \/ WithKey(k) # {}
            \/ \E r \in Request : /\ pc[r] \in {"posting", "crashed"}
                                  /\ command[r].op = "repay" /\ command[r].key = k

\* However stale the rows that overlapping requests write back, no part of an
\* instalment is paid beyond what is due and a PAID one has nothing outstanding.
InstalmentsAddUp ==
    \A l \in Loan : \A n \in DOMAIN schedule[l] : AddsUp(schedule[l][n])

\* A loan goes from APPROVED to ACTIVE and from there to COMPLETED or
\* RESCHEDULED, where it ends: no late write takes it back.
LoanMovesForward ==
    [][\A l \in Loan :
          \/ state'[l] = state[l]
          \/ state[l] = "APPROVED" /\ state'[l] = "ACTIVE"
          \/ state[l] = "ACTIVE" /\ state'[l] \in {"COMPLETED", "RESCHEDULED"}]_state

\* A COMPLETED loan has instalments and all of them are paid.
CompletedIsPaid ==
    \A l \in Loan :
        state[l] = "COMPLETED" =>
            /\ Active(schedule[l]) # {}
            /\ \A n \in Active(schedule[l]) : schedule[l][n].status = "PAID"

Quiet == InFlight = {} /\ \A r \in Request : pc[r] # "crashed"

\* Between requests, with none lost: what the ledger says a member owes is
\* what is outstanding on the schedules of the member's disbursed loans.
ScheduleMatchesLedger ==
    Quiet =>
        \A t \in Tenant, m \in Member :
            Ledger!MemberBalance(events, t, m, "LOAN_PRINCIPAL") =
                SumFunction([l \in {x \in LoansOf(t, m) : state[x] # "APPROVED"} |->
                                OutstandingPrincipal(schedule[l])])

\* "Repayment amount exceeds outstanding": no loan takes in more principal
\* than it lent.
NotOverRepaid ==
    \A l \in Loan :
        SumFunction([r \in {q \in Stored : repayments[q].loan = l} |->
                        repayments[r].parts["principal"]]) <= Contract[l].principal

=============================================================================
