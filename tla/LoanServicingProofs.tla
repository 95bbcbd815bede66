------------------------ MODULE LoanServicingProofs ------------------------
(***************************************************************************)
(* Proofs about LoanServicing for every set of groups, members, loans with *)
(* whatever principal, terms and rate, keys and requests.  What            *)
(* LedgerPostingProofs shows of the ledger is used through the instance LP.*)
(* SerialInv is for a system that serves one request at a time: there the  *)
(* rows a request read are the rows it writes.  DebtInv adds, for as long  *)
(* as no request dies, what relates the events of the ledger, the          *)
(* repayments and the schedules to each other.                             *)
(***************************************************************************)
EXTENDS LoanReads, FiniteSetTheorems, TLAPS

LP == INSTANCE LedgerPostingProofs WITH
    Key <- LedgerKey, BucketName <- FundBucket, Lines <- Seq(LedgerLine),
    pc <- ledgerPc, command <- ledgerCommand, result <- ledgerResult

\* The assumptions of the ledger modules hold of this instance.
LEMMA LedgerAssumptions ==
    /\ Seq(LedgerLine) \subseteq
          Seq([member : Member \cup {GroupAccount}, bucket : FundBucket, amount : Int])
    /\ /\ NoEvent \notin Request
       /\ NoEvent \notin LP!EventRow(Request)
       /\ NoCommand \notin LP!Command
       /\ MaxInFlight \in Nat
    /\ GroupAccount \notin Member
    /\ NoKey \notin LedgerKey
<1>1. LP!EventRow(Request) = Ledger!EventRow(Request)
  BY DEF LP!EventRow, Ledger!EventRow, LP!Line, Ledger!Line
<1>2. LP!Command = Ledger!Command
  BY DEF LP!Command, Ledger!Command, LP!PostCommand, Ledger!PostCommand,
     LP!ReverseCommand, Ledger!ReverseCommand
<1>3. QED
  BY <1>1, <1>2, LoanServicingAssumption, LedgerNullsAssumption DEF LedgerLine
-----------------------------------------------------------------------------
\* The operators of the two instances of the ledger are the same.
LEMMA SameInFlight == Ledger!InFlight = LP!InFlight
BY DEF Ledger!InFlight, LP!InFlight, Ledger!Step, LP!Step, Ledger!PostStep, LP!PostStep,
   Ledger!ReversalStep, LP!ReversalStep

LEMMA SameStart ==
    ASSUME NEW r, NEW c, Ledger!StartPost(r, c)
    PROVE  LP!StartPost(r, c)
<1>1. Ledger!Balanced(c.lines) <=> LP!Balanced(c.lines)
  BY DEF Ledger!Balanced, LP!Balanced, Ledger!SumOf, LP!SumOf, Ledger!SumFunction,
     LP!SumFunction, Ledger!SumFunctionOnSet, LP!SumFunctionOnSet,
     Ledger!FoldFunctionOnSet, LP!FoldFunctionOnSet, Ledger!MapThenFoldSet,
     LP!MapThenFoldSet
<1>2. Ledger!ValidCommand(c) <=> LP!ValidCommand(c)
  BY <1>1 DEF Ledger!ValidCommand, LP!ValidCommand
<1>3. QED
  BY <1>2, SameInFlight
     DEF Ledger!StartPost, LP!StartPost, Ledger!Goto, LP!Goto, Ledger!Cardinality,
         LP!Cardinality

LEMMA SameSteps ==
    ASSUME NEW r
    PROVE  /\ Ledger!Lookup(r) => LP!Lookup(r)
           /\ Ledger!Insert(r) => LP!Insert(r)
           /\ Ledger!Audit(r) => LP!Audit(r)
           /\ Ledger!Crash(r) => LP!Crash(r)
BY SameInFlight
   DEF Ledger!Lookup, LP!Lookup, Ledger!Insert, LP!Insert, Ledger!Audit, LP!Audit,
       Ledger!Crash, LP!Crash, Ledger!Goto, LP!Goto, Ledger!Return, LP!Return,
       Ledger!ByKey, LP!ByKey, Ledger!Ids, LP!Ids, Ledger!KeyFree, LP!KeyFree,
       Ledger!PostedRow, LP!PostedRow

\* Two lines of a posting are lines that the ledger takes as input.
LEMMA PairType ==
    ASSUME NEW b \in FundBucket, NEW m \in Member, NEW n \in Int
    PROVE  Pair(b, m, n) \in Seq(LedgerLine)
<1>1. [member |-> m, bucket |-> b, amount |-> n] \in LedgerLine
  BY DEF LedgerLine
<1>2. [member |-> GroupAccount, bucket |-> b, amount |-> 0 - n] \in LedgerLine
  BY DEF LedgerLine
<1>3. QED
  BY <1>1, <1>2 DEF Pair

LEMMA LoanFacts ==
    ASSUME NEW l \in Loan
    PROVE  /\ Contract[l] \in ContractType
           /\ Contract[l].tenant \in Tenant /\ Contract[l].borrower \in Member
           /\ Contract[l].principal \in Nat \ {0} /\ Contract[l].terms \in Nat \ {0}
           /\ Contract[l].rateBps \in Nat
BY LoanServicingAssumption DEF ContractType

LEMMA InstructionFacts ==
    ASSUME NEW c \in Instruction
    PROVE  /\ c.loan \in Loan /\ c.tenant \in Tenant
           /\ c.op \in {"disburse", "repay", "waive", "reschedule"}
           /\ c.op = "repay" => c \in Repay
           /\ c.op = "waive" => c \in Waive
           /\ c.op = "reschedule" => c \in Reschedule
<1>1. c \in Disburse \cup Repay \cup Waive \cup Reschedule
  BY LoanServicingAssumption
<1>2. QED
  BY <1>1 DEF Disburse, Repay, Waive, Reschedule

LEMMA DisburseCommandType ==
    ASSUME NEW r, command[r] \in Instruction
    PROVE  DisburseCommand(r) \in LP!PostCommand
<1>1. LoanOf(r) \in Loan /\ command[r].tenant \in Tenant
  BY InstructionFacts DEF LoanOf
<1>2. Pair("LOAN_PRINCIPAL", Contract[LoanOf(r)].borrower, Contract[LoanOf(r)].principal)
        \in Seq(LedgerLine)
  BY <1>1, LoanFacts, PairType DEF FundBucket
<1>3. DisbursementKey(LoanOf(r)) \in LedgerKey
  BY <1>1 DEF LedgerKey
<1>4. QED
  BY <1>1, <1>2, <1>3 DEF DisburseCommand, LP!PostCommand

LEMMA RepayCommandType ==
    ASSUME NEW r, command[r] \in Instruction, command[r].op = "repay", FullyAllocated(r)
    PROVE  /\ RepayCommand(r) \in LP!PostCommand
           /\ AllocationOf(r) \in [Part -> Nat]
<1>1. LoanOf(r) \in Loan /\ command[r] \in Repay
  BY InstructionFacts DEF LoanOf
<1>2. command[r].tenant \in Tenant /\ command[r].key \in RepaymentKey /\ command[r].amount \in Int
  BY <1>1 DEF Repay
<1>3. AllocationOf(r) \in [Part -> Nat]
  BY <1>2 DEF FullyAllocated, Split
<1>4. ASSUME NEW part \in Part PROVE PartLines(r, part) \in Seq(LedgerLine)
  <2>1. AllocationOf(r)[part] \in Nat /\ BucketOf[part] \in FundBucket
    BY <1>3 DEF Part, BucketOf, FundBucket
  <2>2. Pair(BucketOf[part], Contract[LoanOf(r)].borrower, 0 - AllocationOf(r)[part])
          \in Seq(LedgerLine)
    BY <1>1, <2>1, LoanFacts, PairType
  <2>3. QED
    BY <2>2 DEF PartLines
<1>5. PartLines(r, "principal") \o PartLines(r, "interest") \o PartLines(r, "penalty")
        \in Seq(LedgerLine)
  BY <1>4 DEF Part
<1>6. LedgerRepaymentKey(command[r].key) \in LedgerKey
  BY <1>2 DEF LedgerKey
<1>7. QED
  BY <1>2, <1>3, <1>5, <1>6 DEF RepayCommand, LP!PostCommand

\* A request that is being served is at a step of the service it called.
LEMMA OwnCommand ==
    ASSUME HandlerInv, NEW r \in Request, pc[r] \in Step
    PROVE  /\ command[r] \in Instruction
           /\ LoanOf(r) \in Loan
           /\ pc[r] = "posting" => command[r].op \in {"disburse", "repay"}
           /\ pc[r] \in RepayStep => command[r].op = "repay"
           /\ pc[r] \in WaiveStep => command[r].op = "waive"
           /\ pc[r] \in RescheduleStep => command[r].op = "reschedule"
<1>1. command[r] \in Instruction
  BY DEF HandlerInv, Handler
<1>2. QED
  BY <1>1, InstructionFacts DEF LoanOf, HandlerInv, Handler

\* Every step of the services is a step of the ledger service or leaves the
\* ledger alone.
LEMMA IsLedgerStep ==
    TypeOK /\ HandlerInv /\ [Next]_vars => [LP!Next]_LP!vars
<1> SUFFICES ASSUME TypeOK, HandlerInv, [Next]_vars PROVE [LP!Next]_LP!vars
  OBVIOUS
<1> USE DEF LP!vars, ledgerVars
<1>1. ASSUME NEW r \in Request, pc[r] \in Step PROVE command[r] \in Instruction
  BY <1>1, OwnCommand
<1>2. ASSUME NEW r \in Request, ReadForDisbursement(r) PROVE [LP!Next]_LP!vars
  <2>1. DisburseCommand(r) \in LP!PostCommand
    BY <1>1, <1>2, DisburseCommandType DEF ReadForDisbursement, Step
  <2>2. LP!StartPost(r, DisburseCommand(r))
    BY <1>2, SameStart DEF ReadForDisbursement
  <2>3. QED
    BY <2>1, <2>2 DEF LP!Next, LP!Post
<1>3. ASSUME NEW r \in Request, LookupRepayment(r) PROVE [LP!Next]_LP!vars
  <2>1. CASE UNCHANGED ledgerVars
    BY <2>1
  <2>2. CASE FullyAllocated(r) /\ Ledger!StartPost(r, RepayCommand(r))
    <3>1. command[r] \in Instruction /\ command[r].op = "repay"
      BY <1>3, OwnCommand DEF LookupRepayment, RepayStep, Step
    <3>2. RepayCommand(r) \in LP!PostCommand
      BY <2>2, <3>1, RepayCommandType
    <3>3. LP!StartPost(r, RepayCommand(r))
      BY <2>2, SameStart
    <3>4. QED
      BY <3>2, <3>3 DEF LP!Next, LP!Post
  <2>3. QED
    BY <1>3, <2>1, <2>2 DEF LookupRepayment
<1>4. ASSUME NEW r \in Request, LedgerStep(r) PROVE [LP!Next]_LP!vars
  <2>1. LP!Lookup(r) \/ LP!Insert(r) \/ LP!Audit(r)
    BY <1>4, SameSteps DEF LedgerStep
  <2>2. QED
    BY <2>1 DEF LP!Next, LP!Post
<1>5. ASSUME NEW r \in Request, Crash(r) PROVE [LP!Next]_LP!vars
  <2>1. LP!Crash(r) \/ UNCHANGED ledgerVars
    BY <1>5, SameSteps DEF Crash
  <2>2. QED
    BY <2>1 DEF LP!Next
<1>6. ASSUME NEW r \in Request,
             \/ Arrive(r) \/ TurnedAway(r) \/ LoanRefused(r) \/ LedgerRefused(r)
             \/ Activate(r) \/ ReadForRepayment(r) \/ CheckEvidence(r) \/ InsertRepayment(r)
             \/ ReadSchedule(r) \/ UpdateItem(r) \/ CountUnpaid(r) \/ Complete(r)
             \/ ReadForException(r) \/ InsertException(r) \/ WaiveItem(r)
             \/ Rescheduling(r) \/ AppendAudit(r)
      PROVE  UNCHANGED ledgerVars
  BY <1>6 DEF Arrive, TurnedAway, LoanRefused, LedgerRefused, Activate, ReadForRepayment,
     CheckEvidence, InsertRepayment, ReadSchedule, UpdateItem, CountUnpaid, Complete,
     ReadForException, InsertException, WaiveItem, Rescheduling, Supersede, CreateItems,
     MarkRescheduled, AppendAudit
<1>7. CASE UNCHANGED vars
  BY <1>7 DEF vars
<1>8. QED
  BY <1>2, <1>3, <1>4, <1>5, <1>6, <1>7 DEF Next, Advance, Disbursement, Repayment
-----------------------------------------------------------------------------
\* What the ledger guarantees in every state.
LedgerInv ==
    /\ LP!TypeOK /\ LP!CallInv /\ LP!OneEventPerKey /\ LP!ReversalNegates
    /\ LP!ReturnsOwnEvent

LEMMA LedgerInvStep == LedgerInv /\ [LP!Next]_LP!vars => LedgerInv'
BY LedgerAssumptions, LP!TypeStep, LP!CallStep, LP!OneEventPerKeyStep,
   LP!ReversalNegatesStep, LP!ReturnsOwnEventStep
   DEF LedgerInv

LEMMA SameType == Ledger!TypeOK <=> LP!TypeOK
BY DEF Ledger!TypeOK, LP!TypeOK, Ledger!EventRow, LP!EventRow, Ledger!Line, LP!Line,
   Ledger!AuditRow, LP!AuditRow, Ledger!Step, LP!Step, Ledger!PostStep, LP!PostStep,
   Ledger!ReversalStep, LP!ReversalStep, Ledger!Finished, LP!Finished,
   Ledger!Command, LP!Command, Ledger!PostCommand, LP!PostCommand,
   Ledger!ReverseCommand, LP!ReverseCommand

LEMMA EventsKept ==
    ASSUME LedgerInv, [LP!Next]_LP!vars, NEW e \in LP!Ids(events)
    PROVE  events'[e] = events[e] /\ e \in LP!Ids(events)'
BY LedgerAssumptions, LP!RowsKept DEF LedgerInv
-----------------------------------------------------------------------------
\* The arithmetic of schedules.
LEMMA QuotientNat ==
    ASSUME NEW a \in Nat, NEW b \in Nat \ {0}
    PROVE  a \div b \in Nat /\ a % b \in Nat
BY SMT

LEMMA ProductNat == ASSUME NEW a \in Nat, NEW b \in Nat PROVE a * b \in Nat
BY SMT

\* A generated schedule has an unpaid row for each term.
LEMMA GeneratedRows ==
    ASSUME NEW principal \in Nat, NEW terms \in Nat \ {0}, NEW rate \in Nat
    PROVE  /\ GenerateSchedule(principal, terms, rate) \in Seq(ItemRow)
           /\ Len(GenerateSchedule(principal, terms, rate)) = terms
           /\ \A n \in 1..terms : AddsUp(GenerateSchedule(principal, terms, rate)[n])
<1>1. TotalInterest(principal, terms, rate) \in Nat
  <2>1. 2 * principal * rate * terms \in Nat
    BY ProductNat
  <2>2. 2 * principal * rate * terms + 10000 \in Nat
    BY <2>1
  <2>3. QED
    BY <2>2, QuotientNat DEF TotalInterest
<1>2. ASSUME NEW total \in Nat, NEW n \in 1..terms
      PROVE  Instalment(total, terms, n) \in Nat
  BY QuotientNat DEF Instalment
<1>3. ASSUME NEW p \in Nat, NEW i \in Nat
      PROVE  NewItem(p, i) \in ItemRow /\ AddsUp(NewItem(p, i))
  <2>1. NewItem(p, i).due \in [Part -> Nat]
    BY DEF NewItem, Part
  <2>2. QED
    BY <2>1 DEF NewItem, ItemRow, AddsUp, Nothing, Part
<1>4. \A n \in 1..terms : /\ GenerateSchedule(principal, terms, rate)[n] \in ItemRow
                           /\ AddsUp(GenerateSchedule(principal, terms, rate)[n])
  BY <1>1, <1>2, <1>3 DEF GenerateSchedule
<1>5. QED
  BY <1>4 DEF GenerateSchedule

\* An item gets no more of an amount than is outstanding on it.
LEMMA ShareBounds ==
    ASSUME NEW item \in ItemRow, AddsUp(item), NEW left \in [Part -> Int],
           \A part \in Part : left[part] >= 0
    PROVE  /\ Share(item, left) \in [Part -> Int]
           /\ \A part \in Part :
                 /\ 0 <= Share(item, left)[part]
                 /\ Share(item, left)[part] <= item.due[part] - item.paid[part]
           /\ Minus(left, Share(item, left)) \in [Part -> Int]
           /\ \A part \in Part : Minus(left, Share(item, left))[part] >= 0
BY DEF Share, Minus, Outstanding, Lesser, AddsUp, ItemRow

\* Amounts that are nowhere above and in total not below are the same.
LEMMA FullSplit ==
    ASSUME NEW a \in [Part -> Int], NEW b \in [Part -> Int],
           \A part \in Part : a[part] <= b[part], Total(a) >= Total(b)
    PROVE  a = b
<1>1. /\ a["principal"] \in Int /\ a["interest"] \in Int /\ a["penalty"] \in Int
      /\ b["principal"] \in Int /\ b["interest"] \in Int /\ b["penalty"] \in Int
  BY DEF Part
<1>2. /\ a["principal"] <= b["principal"] /\ a["interest"] <= b["interest"]
      /\ a["penalty"] <= b["penalty"]
  BY DEF Part
<1>3. /\ a["principal"] = b["principal"] /\ a["interest"] = b["interest"]
      /\ a["penalty"] = b["penalty"]
  BY <1>1, <1>2, SMTT(30) DEF Total
<1>4. \A part \in Part : a[part] = b[part]
  BY <1>3 DEF Part
<1>5. QED
  BY <1>4

\* The columns that a repayment writes keep an instalment sound.
LEMMA RepaidAddsUp ==
    ASSUME NEW item \in ItemRow, AddsUp(item), NEW left \in [Part -> Int],
           \A part \in Part : left[part] >= 0
    PROVE  /\ Repaid(item, left).paid \in [Part -> Int]
           /\ Repaid(item, left).status \in {"PAID", "PART_PAID"}
           /\ \A part \in Part : /\ 0 <= Repaid(item, left).paid[part]
                                  /\ Repaid(item, left).paid[part] <= item.due[part]
           /\ Repaid(item, left).status = "PAID" => Repaid(item, left).paid = item.due
<1> DEFINE paid == [part \in Part |-> item.paid[part] + Share(item, left)[part]]
<1>1. item.due \in [Part -> Int] /\ item.paid \in [Part -> Int]
  BY DEF ItemRow
<1>2. /\ paid \in [Part -> Int]
      /\ \A part \in Part : 0 <= paid[part] /\ paid[part] <= item.due[part]
  BY <1>1, ShareBounds DEF AddsUp
<1>3. Total(paid) >= Total(item.due) => paid = item.due
  BY <1>1, <1>2, FullSplit
<1>4. Repaid(item, left) =
        [paid |-> paid, status |-> IF Total(paid) >= Total(item.due) THEN "PAID" ELSE "PART_PAID"]
  BY DEF Repaid
<1>5. QED
  BY <1>2, <1>3, <1>4

\* The columns that a waiver writes keep an instalment sound.
LEMMA WaivedAddsUp ==
    ASSUME NEW item \in ItemRow, AddsUp(item), NEW amount \in Nat
    PROVE  /\ Waived(item, amount).paid \in [Part -> Int]
           /\ Waived(item, amount).status \in {"WAIVED", "PART_PAID"}
           /\ \A part \in Part : /\ 0 <= Waived(item, amount).paid[part]
                                  /\ Waived(item, amount).paid[part] <= item.due[part]
<1>1. item.due \in [Part -> Int] /\ item.paid \in [Part -> Int]
  BY DEF ItemRow
<1> DEFINE out == Outstanding(item)
           penalty == Lesser(amount, out["penalty"])
           interest == IF amount > penalty THEN Lesser(amount - penalty, out["interest"]) ELSE 0
           paid == [item.paid EXCEPT !["penalty"] = @ + penalty, !["interest"] = @ + interest]
<1>2. out \in [Part -> Int] /\ \A part \in Part : out[part] = item.due[part] - item.paid[part]
  BY <1>1 DEF Outstanding
<1>3. /\ penalty \in Int /\ 0 <= penalty /\ penalty <= out["penalty"]
      /\ interest \in Int /\ 0 <= interest /\ interest <= out["interest"]
  BY <1>1, <1>2 DEF Lesser, AddsUp, Part
<1>4. /\ paid \in [Part -> Int]
      /\ \A part \in Part : 0 <= paid[part] /\ paid[part] <= item.due[part]
  BY <1>1, <1>2, <1>3 DEF AddsUp, Part
<1>5. Waived(item, amount) =
        [paid |-> paid, status |-> IF \A part \in Part : paid[part] >= item.due[part]
                                   THEN "WAIVED" ELSE "PART_PAID"]
  BY DEF Waived
<1>6. QED
  BY <1>4, <1>5
-----------------------------------------------------------------------------
\* The four statements that write instalments keep what was due, and leave
\* sound rows.
RowsSound(rows) == rows \in Seq(ItemRow) /\ \A n \in DOMAIN rows : AddsUp(rows[n])

Later(old, new) ==
    \A n \in DOMAIN old : n \in DOMAIN new /\ new[n].due = old[n].due

LEMMA WriteItemEffect ==
    ASSUME NEW l \in Loan, schedule \in [Loan -> Seq(ItemRow)], RowsSound(schedule[l]),
           NEW n \in DOMAIN schedule[l], NEW columns,
           columns.paid \in [Part -> Int],
           columns.status \in {"PAID", "PART_PAID", "WAIVED"},
           \A part \in Part : /\ 0 <= columns.paid[part]
                              /\ columns.paid[part] <= schedule[l][n].due[part],
           columns.status = "PAID" => columns.paid = schedule[l][n].due,
           WriteItem(l, n, columns)
    PROVE  /\ \A x \in Loan : x # l => schedule'[x] = schedule[x]
           /\ schedule' \in [Loan -> Seq(ItemRow)]
           /\ RowsSound(schedule'[l]) /\ Later(schedule[l], schedule'[l])
<1> DEFINE row == [schedule[l][n] EXCEPT !.paid = columns.paid, !.status = columns.status]
           rows == [schedule[l] EXCEPT ![n] = row]
<1>1. schedule[l] \in Seq(ItemRow) /\ schedule[l][n] \in ItemRow
  OBVIOUS
<1>2. schedule' = [schedule EXCEPT ![l] = rows]
  BY DEF WriteItem
<1>3. row \in ItemRow /\ AddsUp(row)
  BY <1>1 DEF ItemRow, AddsUp
<1>4. rows \in Seq(ItemRow) /\ DOMAIN rows = DOMAIN schedule[l]
  BY <1>1, <1>3
<1>5. \A k \in DOMAIN rows : AddsUp(rows[k]) /\ rows[k].due = schedule[l][k].due
  BY <1>1, <1>3 DEF RowsSound
<1>6. schedule'[l] = rows
  BY <1>2
<1>7. QED
  BY <1>2, <1>4, <1>5, <1>6 DEF RowsSound, Later

LEMMA SupersededRows ==
    ASSUME NEW rows, RowsSound(rows), NEW r \in Request
    PROVE  RowsSound(Superseded(rows, r)) /\ Later(rows, Superseded(rows, r))
<1>1. ASSUME NEW n \in DOMAIN rows
      PROVE  /\ rows[n] \in ItemRow
             /\ [rows[n] EXCEPT !.superseded = r] \in ItemRow
  <2>1. rows[n] \in ItemRow
    BY DEF RowsSound
  <2>2. [rows[n] EXCEPT !.superseded = r] \in ItemRow
    BY <2>1 DEF ItemRow
  <2>3. QED
    BY <2>1, <2>2
<1>2. Superseded(rows, r) \in Seq(ItemRow)
  BY <1>1 DEF Superseded, RowsSound
<1>3. \A n \in DOMAIN rows :
          /\ Superseded(rows, r)[n].due = rows[n].due
          /\ Superseded(rows, r)[n].paid = rows[n].paid
          /\ Superseded(rows, r)[n].status = rows[n].status
  BY <1>1 DEF Superseded, ItemRow
<1>4. DOMAIN Superseded(rows, r) = DOMAIN rows
  BY DEF Superseded
<1>5. QED
  BY <1>2, <1>3, <1>4 DEF RowsSound, Later, AddsUp

LEMMA AppendedRows ==
    ASSUME NEW rows, RowsSound(rows), NEW more, RowsSound(more)
    PROVE  RowsSound(rows \o more) /\ Later(rows, rows \o more)
<1>1. rows \in Seq(ItemRow) /\ more \in Seq(ItemRow)
  BY DEF RowsSound
<1>2. rows \o more \in Seq(ItemRow)
  BY <1>1
<1>3. \A n \in DOMAIN rows : n \in DOMAIN (rows \o more) /\ (rows \o more)[n] = rows[n]
  BY <1>1
<1>4. \A n \in DOMAIN (rows \o more) :
          \/ n \in DOMAIN rows
          \/ n - Len(rows) \in DOMAIN more /\ (rows \o more)[n] = more[n - Len(rows)]
  BY <1>1
<1>5. QED
  BY <1>2, <1>3, <1>4 DEF RowsSound, Later

\* The inductive invariant.
IInv == TypeOK /\ HandlerInv /\ LedgerInv /\ InstalmentsAddUp

LEMMA ScheduleStep ==
    ASSUME TypeOK, HandlerInv, InstalmentsAddUp, [Next]_vars
    PROVE  /\ schedule' \in [Loan -> Seq(ItemRow)]
           /\ \A l \in Loan : RowsSound(schedule'[l]) /\ Later(schedule[l], schedule'[l])
<1> DEFINE Goal == /\ schedule' \in [Loan -> Seq(ItemRow)]
                   /\ \A l \in Loan : /\ RowsSound(schedule'[l])
                                      /\ Later(schedule[l], schedule'[l])
<1>1. /\ schedule \in [Loan -> Seq(ItemRow)]
      /\ \A l \in Loan : RowsSound(schedule[l])
  BY DEF TypeOK, InstalmentsAddUp, RowsSound
<1>2. UNCHANGED schedule => Goal
  BY <1>1 DEF Later
<1>3. ASSUME NEW r \in Request, pc[r] \in Step
      PROVE  /\ LoanOf(r) \in Loan /\ frame[r] \in Frame /\ FrameInv(r)
             /\ \A n \in DOMAIN frame[r].items : frame[r].items[n] \in ItemRow
  BY <1>3, OwnCommand DEF TypeOK, HandlerInv, Frame
<1>4. ASSUME NEW r \in Request, UpdateItem(r) PROVE Goal
  <2>1. LoanOf(r) \in Loan /\ frame[r] \in Frame /\ FrameInv(r)
    BY <1>3, <1>4 DEF UpdateItem, Step, RepayStep
  <2>2. ASSUME NEW n \in frame[r].todo,
               WriteItem(LoanOf(r), n, Repaid(frame[r].items[n], frame[r].left))
        PROVE  Goal
    <3> DEFINE columns == Repaid(frame[r].items[n], frame[r].left)
    <3>1. /\ n \in DOMAIN frame[r].items /\ n \in DOMAIN schedule[LoanOf(r)]
          /\ frame[r].items[n].due = schedule[LoanOf(r)][n].due
          /\ AddsUp(frame[r].items[n])
          /\ frame[r].left \in [Part -> Int] /\ \A part \in Part : frame[r].left[part] >= 0
      BY <2>1 DEF FrameInv, Frame
    <3>2. frame[r].items[n] \in ItemRow
      BY <1>3, <1>4, <3>1 DEF UpdateItem, Step, RepayStep
    <3>3. /\ columns.paid \in [Part -> Int]
          /\ columns.status \in {"PAID", "PART_PAID", "WAIVED"}
          /\ \A part \in Part : /\ 0 <= columns.paid[part]
                                /\ columns.paid[part] <= schedule[LoanOf(r)][n].due[part]
          /\ columns.status = "PAID" => columns.paid = schedule[LoanOf(r)][n].due
      BY <3>1, <3>2, RepaidAddsUp
    <3> HIDE DEF columns
    <3>4. WriteItem(LoanOf(r), n, columns)
      BY <2>2 DEF columns
    <3>5. /\ \A x \in Loan : x # LoanOf(r) => schedule'[x] = schedule[x]
          /\ schedule' \in [Loan -> Seq(ItemRow)]
          /\ RowsSound(schedule'[LoanOf(r)])
          /\ Later(schedule[LoanOf(r)], schedule'[LoanOf(r)])
      BY <1>1, <2>1, <3>1, <3>3, <3>4, WriteItemEffect
    <3>6. QED
      BY <1>1, <3>5 DEF Later
  <2>3. QED
    BY <1>2, <1>4, <2>2 DEF UpdateItem
<1>5. ASSUME NEW r \in Request, WaiveItem(r) PROVE Goal
  <2>1. LoanOf(r) \in Loan /\ frame[r] \in Frame /\ FrameInv(r)
    BY <1>3, <1>5 DEF WaiveItem, Step, WaiveStep
  <2> DEFINE n == command[r].item
             waived == Waived(frame[r].items[n], command[r].amount)
             columns == [waived EXCEPT !.paid["principal"] =
                            schedule[LoanOf(r)][n].paid["principal"]]
  <2>2. CASE WaivesItem(r)
    <3>1. command[r] \in Waive
      BY <1>5, OwnCommand, InstructionFacts DEF WaiveItem, WaiveStep, Step
    <3>2. command[r].amount \in Nat
      BY <3>1 DEF Waive
    <3>3. /\ n \in DOMAIN frame[r].items /\ n \in DOMAIN schedule[LoanOf(r)]
          /\ frame[r].items[n].due = schedule[LoanOf(r)][n].due
          /\ AddsUp(frame[r].items[n])
      BY <2>1, <2>2 DEF FrameInv, WaivesItem, Active
    <3>4. frame[r].items[n] \in ItemRow
      BY <1>3, <1>5, <3>3 DEF WaiveItem, Step, WaiveStep
    <3>5. /\ waived.paid \in [Part -> Int]
          /\ waived.status \in {"WAIVED", "PART_PAID"}
          /\ \A part \in Part : /\ 0 <= waived.paid[part]
                                /\ waived.paid[part] <= schedule[LoanOf(r)][n].due[part]
      BY <3>2, <3>3, <3>4, WaivedAddsUp
    <3>6. AddsUp(schedule[LoanOf(r)][n]) /\ schedule[LoanOf(r)][n] \in ItemRow
      BY <1>1, <2>1, <3>3 DEF RowsSound
    <3>7. waived = [paid |-> waived.paid, status |-> waived.status]
      BY DEF Waived
    <3> HIDE DEF waived
    <3>8. /\ columns.paid = [waived.paid EXCEPT !["principal"] =
                                schedule[LoanOf(r)][n].paid["principal"]]
          /\ columns.status = waived.status
      BY <3>7
    <3>9. /\ columns.paid \in [Part -> Int]
          /\ columns.status \in {"PAID", "PART_PAID", "WAIVED"}
          /\ \A part \in Part : /\ 0 <= columns.paid[part]
                                /\ columns.paid[part] <= schedule[LoanOf(r)][n].due[part]
          /\ columns.status = "PAID" => columns.paid = schedule[LoanOf(r)][n].due
      <4> DEFINE row == schedule[LoanOf(r)][n]
      <4> HIDE DEF columns, n
      <4>1. row.paid["principal"] \in Int /\ 0 <= row.paid["principal"]
            /\ row.paid["principal"] <= row.due["principal"]
        BY <3>6 DEF AddsUp, ItemRow, Part
      <4> HIDE DEF row
      <4>2. columns.paid = [waived.paid EXCEPT !["principal"] = row.paid["principal"]]
        BY <3>8 DEF row
      <4>3. columns.paid \in [Part -> Int]
        BY <3>5, <4>1, <4>2
      <4>4. \A part \in Part : 0 <= columns.paid[part] /\ columns.paid[part] <= row.due[part]
        BY <3>5, <4>1, <4>2 DEF row
      <4>5. columns.status \in {"WAIVED", "PART_PAID"}
        BY <3>5, <3>8
      <4>6. QED
        BY <4>3, <4>4, <4>5 DEF row
    <3>10. WriteItem(LoanOf(r), n, columns)
      BY <1>5, <2>2 DEF WaiveItem, waived
    <3> HIDE DEF columns
    <3>11. /\ \A x \in Loan : x # LoanOf(r) => schedule'[x] = schedule[x]
           /\ schedule' \in [Loan -> Seq(ItemRow)]
           /\ RowsSound(schedule'[LoanOf(r)])
           /\ Later(schedule[LoanOf(r)], schedule'[LoanOf(r)])
      BY <1>1, <2>1, <3>3, <3>9, <3>10, WriteItemEffect
    <3>12. QED
      BY <1>1, <3>11 DEF Later
  <2>3. QED
    BY <1>2, <1>5, <2>2 DEF WaiveItem
<1>6. ASSUME NEW r \in Request, Supersede(r) PROVE Goal
  <2>1. LoanOf(r) \in Loan
    BY <1>3, <1>6 DEF Supersede, Step, RescheduleStep
  <2>2. schedule' = [schedule EXCEPT ![LoanOf(r)] = Superseded(schedule[LoanOf(r)], r)]
    BY <1>6 DEF Supersede
  <2>3. /\ RowsSound(Superseded(schedule[LoanOf(r)], r))
        /\ Later(schedule[LoanOf(r)], Superseded(schedule[LoanOf(r)], r))
    BY <1>1, <2>1, SupersededRows
  <2>4. QED
    BY <1>1, <2>1, <2>2, <2>3 DEF Later, RowsSound
<1>7. ASSUME NEW r \in Request, CreateItems(r) PROVE Goal
  <2>1. LoanOf(r) \in Loan /\ FrameInv(r) /\ pc[r] = "creating"
    BY <1>3, <1>7 DEF CreateItems, Step, RescheduleStep
  <2>2. command[r] \in Reschedule
    BY <2>1, OwnCommand, InstructionFacts DEF RescheduleStep, Step
  <2>3. /\ OutstandingPrincipal(frame[r].items) \in Nat
        /\ command[r].terms \in Nat \ {0}
    BY <2>1, <2>2 DEF FrameInv, RescheduleStep, Reschedule
  <2>4. RowsSound(NewItems(r))
    <3> DEFINE principal == OutstandingPrincipal(frame[r].items)
               terms == command[r].terms
               rate == Contract[LoanOf(r)].rateBps
    <3>1. principal \in Nat /\ terms \in Nat \ {0} /\ rate \in Nat
      BY <2>1, <2>3, LoanFacts
    <3>2. NewItems(r) = GenerateSchedule(principal, terms, rate)
      BY DEF NewItems
    <3> HIDE DEF principal, terms, rate
    <3>3. /\ NewItems(r) \in Seq(ItemRow) /\ Len(NewItems(r)) = terms
          /\ \A n \in 1..terms : AddsUp(NewItems(r)[n])
      BY <3>1, <3>2, GeneratedRows
    <3>4. DOMAIN NewItems(r) = 1..terms
      BY <3>3
    <3>5. QED
      BY <3>3, <3>4 DEF RowsSound
  <2>5. CASE schedule' = [schedule EXCEPT ![LoanOf(r)] = schedule[LoanOf(r)] \o NewItems(r)]
    <3>1. /\ RowsSound(schedule[LoanOf(r)] \o NewItems(r))
          /\ Later(schedule[LoanOf(r)], schedule[LoanOf(r)] \o NewItems(r))
      BY <1>1, <2>1, <2>4, AppendedRows
    <3>2. QED
      BY <1>1, <2>1, <2>5, <3>1 DEF Later, RowsSound
  <2>6. QED
    BY <1>2, <1>7, <2>5 DEF CreateItems
<1>8. ASSUME NEW r \in Request,
             \/ Arrive(r) \/ TurnedAway(r) \/ LoanRefused(r) \/ LedgerStep(r) \/ LedgerRefused(r)
             \/ Disbursement(r) \/ ReadForRepayment(r) \/ CheckEvidence(r) \/ LookupRepayment(r)
             \/ InsertRepayment(r) \/ ReadSchedule(r) \/ CountUnpaid(r) \/ Complete(r)
             \/ ReadForException(r) \/ InsertException(r) \/ MarkRescheduled(r)
             \/ AppendAudit(r) \/ Crash(r)
      PROVE  UNCHANGED schedule
  BY <1>8 DEF Arrive, TurnedAway, LoanRefused, LedgerStep, LedgerRefused, Disbursement,
     ReadForDisbursement, Activate, ReadForRepayment, CheckEvidence, LookupRepayment,
     InsertRepayment, ReadSchedule, CountUnpaid, Complete, ReadForException, InsertException,
     MarkRescheduled, AppendAudit, Crash, tables
<1>9. CASE UNCHANGED vars
  BY <1>2, <1>9 DEF vars, tables
<1>10. QED
  BY <1>2, <1>4, <1>5, <1>6, <1>7, <1>8, <1>9 DEF Next, Advance, Repayment, Rescheduling
-----------------------------------------------------------------------------
\* A loan's state is written by three statements only.
LEMMA StateWriters ==
    ASSUME [Next]_vars, state' # state
    PROVE  \E r \in Request : Activate(r) \/ Complete(r) \/ MarkRescheduled(r)
<1>1. ASSUME NEW r \in Request, Disbursement(r) \/ Repayment(r) \/ Rescheduling(r)
      PROVE  \/ UNCHANGED state
             \/ Activate(r) \/ Complete(r) \/ MarkRescheduled(r)
  BY <1>1 DEF Disbursement, Repayment, Rescheduling, ReadForDisbursement, ReadForRepayment,
     CheckEvidence, LookupRepayment, InsertRepayment, ReadSchedule, UpdateItem, CountUnpaid,
     Supersede, CreateItems, tables
<1>2. ASSUME NEW r \in Request,
             \/ Arrive(r) \/ TurnedAway(r) \/ LoanRefused(r) \/ LedgerStep(r) \/ LedgerRefused(r)
             \/ ReadForException(r) \/ InsertException(r) \/ WaiveItem(r) \/ AppendAudit(r)
             \/ Crash(r)
      PROVE  UNCHANGED state
  BY <1>2 DEF Arrive, TurnedAway, LoanRefused, LedgerStep, LedgerRefused, ReadForException,
     InsertException, WaiveItem, AppendAudit, Crash, tables
<1>3. QED
  BY <1>1, <1>2 DEF Next, Advance, vars, tables

\* The other tables: a loan never gets back to APPROVED, a repayment row stays
\* as it was inserted.
LEMMA StateStep ==
    ASSUME TypeOK, HandlerInv, [Next]_vars
    PROVE  /\ state' \in [Loan -> LoanState]
           /\ \A l \in Loan : state[l] # "APPROVED" => state'[l] # "APPROVED"
<1>1. CASE UNCHANGED state
  BY <1>1 DEF TypeOK
<1>2. CASE state' # state
  <2>1. PICK r \in Request : Activate(r) \/ Complete(r) \/ MarkRescheduled(r)
    BY <1>2, StateWriters
  <2>2. /\ pc[r] \in Step
        /\ \E s \in LoanState \ {"APPROVED"} : state' = [state EXCEPT ![LoanOf(r)] = s]
    BY <2>1 DEF Activate, Complete, MarkRescheduled, LoanState, Step, RepayStep, RescheduleStep
  <2>3. QED
    BY <2>2, OwnCommand DEF TypeOK
<1>3. QED
  BY <1>1, <1>2

\* Only the write of a disbursement takes a loan out of APPROVED.
LEMMA StateMove ==
    ASSUME TypeOK, HandlerInv, [Next]_vars, NEW l \in Loan,
           state[l] = "APPROVED", state'[l] # "APPROVED"
    PROVE  \E r \in Request : Activate(r) /\ LoanOf(r) = l
<1>1. PICK r \in Request : \/ Activate(r)
                           \/ Complete(r)
                           \/ MarkRescheduled(r)
  BY StateWriters
<1>2. LoanOf(r) = l
  BY <1>1 DEF Activate, Complete, MarkRescheduled, TypeOK
<1>3. CASE Complete(r) \/ MarkRescheduled(r)
  <2>1. pc[r] \in {"completing", "marking"}
    BY <1>3 DEF Complete, MarkRescheduled
  <2>2. pc[r] \in Step \ {"start"} /\ command[r].op # "disburse"
    BY <2>1, OwnCommand DEF Step, RepayStep, RescheduleStep
  <2>3. QED
    BY <1>2, <2>2 DEF HandlerInv, Handler
<1>4. QED
  BY <1>1, <1>2, <1>3

LEMMA RepaymentsStep ==
    ASSUME TypeOK, [Next]_vars
    PROVE  \/ UNCHANGED repayments
           \/ \E r \in Request : /\ InsertRepayment(r)
                                 /\ ~KeyTaken(r)
                                 /\ repayments' = [repayments EXCEPT ![r] = NewRepayment(r)]
<1>1. ASSUME NEW r \in Request, Disbursement(r) \/ Repayment(r) \/ Rescheduling(r)
      PROVE  UNCHANGED repayments \/ InsertRepayment(r)
  BY <1>1 DEF Disbursement, Repayment, Rescheduling, ReadForDisbursement, Activate,
     ReadForRepayment, CheckEvidence, LookupRepayment, ReadSchedule, UpdateItem, CountUnpaid,
     Complete, Supersede, CreateItems, MarkRescheduled, tables
<1>2. ASSUME NEW r \in Request,
             \/ Arrive(r) \/ TurnedAway(r) \/ LoanRefused(r) \/ LedgerStep(r) \/ LedgerRefused(r)
             \/ ReadForException(r) \/ InsertException(r) \/ WaiveItem(r) \/ AppendAudit(r)
             \/ Crash(r)
      PROVE  UNCHANGED repayments
  BY <1>2 DEF Arrive, TurnedAway, LoanRefused, LedgerStep, LedgerRefused, ReadForException,
     InsertException, WaiveItem, AppendAudit, Crash, tables
<1>3. ASSUME NEW r \in Request, InsertRepayment(r), repayments' # repayments
      PROVE  ~KeyTaken(r) /\ repayments' = [repayments EXCEPT ![r] = NewRepayment(r)]
  BY <1>3 DEF InsertRepayment
<1>4. QED
  BY <1>1, <1>2, <1>3 DEF Next, Advance, vars, tables

LEMMA RepaymentsKept ==
    ASSUME TypeOK, HandlerInv, [Next]_vars, NEW q \in Stored
    PROVE  q \in Stored' /\ repayments'[q] = repayments[q]
<1>1. q \in Request /\ repayments[q] # NoRepayment
  BY DEF Stored
<1>2. ASSUME NEW r \in Request, InsertRepayment(r) PROVE r # q
  BY <1>1, <1>2 DEF InsertRepayment, HandlerInv, Handler
<1>3. repayments'[q] = repayments[q]
  BY <1>1, <1>2, RepaymentsStep DEF TypeOK
<1>4. QED
  BY <1>1, <1>3 DEF Stored

\* The event that a posting returned is under the caller's tenant and key.
LEMMA PostingReturned ==
    ASSUME TypeOK, HandlerInv, LedgerInv, NEW r \in Request,
           pc[r] = "posting", command[r].op = "repay", ledgerPc[r] = "done"
    PROVE  /\ ledgerResult[r] \in LP!Ids(events) /\ ledgerResult[r] \in Request
           /\ events[ledgerResult[r]].tenant = command[r].tenant
           /\ events[ledgerResult[r]].key = LedgerRepaymentKey(command[r].key)
<1>1. /\ ledgerCommand[r].op = "post" /\ ledgerCommand[r].tenant = command[r].tenant
      /\ ledgerCommand[r].key = LedgerRepaymentKey(command[r].key)
  BY DEF HandlerInv, Handler
<1>2. QED
  BY <1>1 DEF LedgerInv, LP!TypeOK, LP!ReturnsOwnEvent, LP!Ids

LEMMA NewRepaymentType ==
    ASSUME TypeOK, HandlerInv, LedgerInv, NEW r \in Request, InsertRepayment(r)
    PROVE  NewRepayment(r) \in RepaymentRow
<1>1. pc[r] = "posting" /\ command[r].op = "repay" /\ ledgerPc[r] = "done"
  BY DEF InsertRepayment, LedgerReturned
<1>2. command[r] \in Repay /\ LoanOf(r) \in Loan
  BY <1>1, OwnCommand, InstructionFacts DEF Step
<1>3. ledgerResult[r] \in Request
  BY <1>1, PostingReturned
<1>4. frame[r].left \in [Part -> Int]
  BY DEF TypeOK, Frame
<1>5. /\ command[r].tenant \in Tenant /\ command[r].amount \in Int
      /\ command[r].evidence \in Evidence \cup {NoEvidence} /\ command[r].key \in RepaymentKey
  BY <1>2 DEF Repay
<1>6. QED
  BY <1>2, <1>3, <1>4, <1>5 DEF NewRepayment, RepaymentRow

\* What a turn of the update loop leaves to be written is an allocation still.
LEMMA UpdatedFrame ==
    ASSUME TypeOK, HandlerInv, NEW r \in Request, UpdateItem(r)
    PROVE  /\ frame'[r] \in Frame
           /\ frame' = [frame EXCEPT ![r] = frame'[r]]
           /\ frame'[r].items = frame[r].items /\ frame'[r].todo \subseteq frame[r].todo
           /\ \A part \in Part : frame'[r].left[part] >= 0
<1>1. frame[r] \in Frame /\ FrameInv(r)
  BY DEF TypeOK, HandlerInv
<1>2. CASE UNCHANGED frame
  BY <1>1, <1>2 DEF FrameInv, TypeOK
<1>3. ASSUME NEW n \in frame[r].todo,
             frame' = [frame EXCEPT ![r].left = Minus(@, Share(frame[r].items[n], @)),
                                    ![r].todo = @ \ {n}]
      PROVE  /\ frame'[r] \in Frame
             /\ frame' = [frame EXCEPT ![r] = frame'[r]]
             /\ frame'[r].items = frame[r].items /\ frame'[r].todo \subseteq frame[r].todo
             /\ \A part \in Part : frame'[r].left[part] >= 0
  <2> DEFINE left == Minus(frame[r].left, Share(frame[r].items[n], frame[r].left))
             new == [frame[r] EXCEPT !.left = left, !.todo = frame[r].todo \ {n}]
  <2>1. /\ frame[r].items[n] \in ItemRow /\ AddsUp(frame[r].items[n])
        /\ frame[r].left \in [Part -> Int] /\ \A part \in Part : frame[r].left[part] >= 0
    BY <1>1 DEF FrameInv, Frame
  <2>2. left \in [Part -> Int] /\ \A part \in Part : left[part] >= 0
    BY <2>1, ShareBounds
  <2>3. frame' = [frame EXCEPT ![r] = new]
    BY <1>3 DEF TypeOK
  <2> HIDE DEF left
  <2>4. new \in Frame /\ new.items = frame[r].items /\ new.todo \subseteq frame[r].todo
        /\ new.left = left
    BY <1>1, <2>2 DEF Frame
  <2> HIDE DEF new
  <2>5. frame'[r] = new
    BY <2>3 DEF TypeOK
  <2>6. QED
    BY <2>2, <2>3, <2>4, <2>5
<1>4. QED
  BY <1>2, <1>3 DEF UpdateItem

\* Every variable keeps its type.
LEMMA TypeStep ==
    ASSUME TypeOK, HandlerInv, LedgerInv, InstalmentsAddUp, [Next]_vars
    PROVE  TypeOK'
<1>1. Ledger!TypeOK'
  <2>1. LP!TypeOK'
    BY IsLedgerStep, LedgerInvStep DEF LedgerInv
  <2>2. QED
    BY <2>1, SameType, PTL
<1>2. state' \in [Loan -> LoanState] /\ schedule' \in [Loan -> Seq(ItemRow)]
  BY StateStep, ScheduleStep
<1>3. repayments' \in [Request -> RepaymentRow \cup {NoRepayment}]
  BY RepaymentsStep, NewRepaymentType DEF TypeOK
<1> DEFINE Rest == /\ exceptions' \in SUBSET Request
                   /\ trail' \in SUBSET Request
                   /\ pc' \in [Request -> {"idle"} \cup Step \cup Finished]
                   /\ command' \in [Request -> Instruction \cup {NoCommand}]
                   /\ frame' \in [Request -> Frame]
<1> USE DEF Goto, Leave, Step, RepayStep, WaiveStep, RescheduleStep, Finished, Refusal
<1>4. EmptyFrame \in Frame
  BY DEF EmptyFrame, Frame, Nothing
<1>5. ASSUME NEW r \in Request, Arrive(r) PROVE Rest
  BY <1>5 DEF TypeOK, Arrive, tables
<1>6. ASSUME NEW r \in Request,
             TurnedAway(r) \/ LoanRefused(r) \/ LedgerStep(r) \/ LedgerRefused(r) \/ AppendAudit(r)
               \/ Crash(r)
      PROVE  Rest
  BY <1>4, <1>6 DEF TypeOK, TurnedAway, LoanRefused, LedgerStep, LedgerRefused, AppendAudit,
     Crash, tables
<1>7. ASSUME NEW r \in Request, Disbursement(r) PROVE Rest
  BY <1>7 DEF TypeOK, Disbursement, ReadForDisbursement, Activate, tables
<1>8. ASSUME NEW r \in Request, pc[r] \in Step PROVE schedule[LoanOf(r)] \in Seq(ItemRow)
  BY <1>8, OwnCommand DEF TypeOK
<1>9. ASSUME NEW r \in Request, ReadForRepayment(r) \/ ReadForException(r) PROVE Rest
  <2>1. schedule[LoanOf(r)] \in Seq(ItemRow) /\ frame[r] \in Frame
    BY <1>8, <1>9 DEF ReadForRepayment, ReadForException, TypeOK
  <2>2. [frame[r] EXCEPT !.items = schedule[LoanOf(r)]] \in Frame
    BY <2>1 DEF Frame
  <2>3. frame' \in [Request -> Frame]
    BY <1>4, <1>9, <2>2 DEF ReadForRepayment, ReadForException, TypeOK
  <2>4. QED
    BY <1>9, <2>3 DEF TypeOK, ReadForRepayment, ReadForException, tables
<1>10. ASSUME NEW r \in Request, CheckEvidence(r) PROVE Rest
  BY <1>4, <1>10 DEF TypeOK, CheckEvidence, tables
<1>11. ASSUME NEW r \in Request, LookupRepayment(r) PROVE Rest
  <2>1. FullyAllocated(r) => [frame[r] EXCEPT !.left = AllocationOf(r)] \in Frame
    <3>1. command[r].op = "repay" /\ command[r] \in Instruction
      BY <1>11, OwnCommand DEF LookupRepayment
    <3>2. FullyAllocated(r) => AllocationOf(r) \in [Part -> Int]
      BY <3>1, RepayCommandType
    <3>3. QED
      BY <3>2 DEF TypeOK, Frame
  <2>2. QED
    BY <1>4, <1>11, <2>1, ZenonT(40) DEF TypeOK, LookupRepayment, tables
<1>12. ASSUME NEW r \in Request, InsertRepayment(r) PROVE Rest
  BY <1>4, <1>12 DEF TypeOK, InsertRepayment, tables
<1>13. ASSUME NEW r \in Request, ReadSchedule(r) PROVE Rest
  <2>1. Payable(schedule[LoanOf(r)]) \subseteq Nat
    BY <1>8, <1>13 DEF ReadSchedule, Payable, Active
  <2>2. [frame[r] EXCEPT !.items = schedule[LoanOf(r)],
                         !.todo = Payable(schedule[LoanOf(r)])] \in Frame
    BY <1>8, <1>13, <2>1 DEF ReadSchedule, TypeOK, Frame
  <2>3. QED
    BY <1>13, <2>2 DEF TypeOK, ReadSchedule, tables
<1>14. ASSUME NEW r \in Request, UpdateItem(r) PROVE Rest
  <2>1. frame' \in [Request -> Frame]
    BY <1>14, UpdatedFrame DEF TypeOK, UpdateItem
  <2>2. QED
    BY <1>14, <2>1 DEF TypeOK, UpdateItem
<1>15. ASSUME NEW r \in Request, CountUnpaid(r) \/ Complete(r) \/ InsertException(r) \/ WaiveItem(r)
       PROVE  Rest
  BY <1>15 DEF TypeOK, CountUnpaid, Complete, InsertException, WaiveItem, tables
<1>16. ASSUME NEW r \in Request, Rescheduling(r) PROVE Rest
  BY <1>4, <1>16 DEF TypeOK, Rescheduling, Supersede, CreateItems, MarkRescheduled, tables
<1>17. ASSUME UNCHANGED <<exceptions, trail, pc, command, frame>> PROVE Rest
  BY <1>17 DEF TypeOK
<1> HIDE DEF Rest
<1>18. Rest
  BY <1>5, <1>6, <1>7, <1>9, <1>10, <1>11, <1>12, <1>13, <1>14, <1>15, <1>16, <1>17
     DEF Next, Advance, Repayment, vars, tables
<1>19. QED
  BY <1>1, <1>2, <1>3, <1>18 DEF TypeOK, Rest
-----------------------------------------------------------------------------
\* A request that another one's step does not touch keeps what it relies on.
LEMMA Undisturbed ==
    ASSUME TypeOK, HandlerInv, InstalmentsAddUp, [Next]_vars, NEW q \in Request,
           pc'[q] = pc[q], command'[q] = command[q], frame'[q] = frame[q],
           ledgerPc'[q] = ledgerPc[q], ledgerCommand'[q] = ledgerCommand[q],
           repayments'[q] = repayments[q], exceptions \subseteq exceptions'
    PROVE  Handler(q)' /\ FrameInv(q)'
<1>1. Handler(q) /\ FrameInv(q)
  BY DEF HandlerInv
<1>2. pc[q] \in Step => LoanOf(q) \in Loan
  BY OwnCommand
<1>3. pc[q] = "audit" => pc[q] \in Step
  BY DEF Step
<1>4. Handler(q)'
  BY <1>1, <1>2, <1>3, StateStep DEF Handler, LoanOf, Stored
<1>5. \A n \in DOMAIN frame[q].items :
          /\ n \in DOMAIN schedule'[LoanOf(q)]
          /\ frame[q].items[n].due = schedule'[LoanOf(q)][n].due
  <2>1. CASE pc[q] \in Step
    BY <1>1, <1>2, <2>1, ScheduleStep DEF FrameInv, Later
  <2>2. CASE pc[q] \notin Step
    BY <1>1, <2>2 DEF FrameInv, EmptyFrame
  <2>3. QED
    BY <2>1, <2>2
<1>6. FrameInv(q)'
  BY <1>1, <1>5 DEF FrameInv, LoanOf
<1>7. QED
  BY <1>4, <1>6

\* The frame of a request that is not being served, or has just arrived.
LEMMA EmptyFrameSound ==
    ASSUME NEW q \in Request, frame'[q] = EmptyFrame, pc'[q] \notin Step \/ pc'[q] = "start"
    PROVE  FrameInv(q)'
<1>1. /\ EmptyFrame.items = <<>> /\ EmptyFrame.todo = {}
      /\ \A part \in Part : EmptyFrame.left[part] >= 0
  BY DEF EmptyFrame, Nothing
<1>2. pc'[q] \notin {"posting", "rescheduleEvent", "superseding", "creating"}
  BY DEF Step, RescheduleStep
<1>3. QED
  BY <1>1, <1>2 DEF FrameInv, RescheduleStep

\* A frame with sound items stays sound while its request goes on.
LEMMA FrameSound ==
    ASSUME TypeOK, HandlerInv, InstalmentsAddUp, [Next]_vars, NEW q \in Request,
           pc[q] \in Step, command'[q] = command[q],
           frame'[q].items \in {frame[q].items, schedule[LoanOf(q)]},
           frame'[q].todo \subseteq DOMAIN frame'[q].items,
           \A part \in Part : frame'[q].left[part] >= 0,
           pc'[q] \in Step,
           pc'[q] = "posting" /\ command[q].op = "repay" =>
               frame'[q].left \in Split(command[q].amount),
           pc'[q] \in RescheduleStep \ {"marking"} =>
               command[q].terms >= 1 /\ OutstandingPrincipal(frame'[q].items) \in Nat \ {0}
    PROVE  FrameInv(q)'
<1>1. FrameInv(q) /\ LoanOf(q) \in Loan
  BY OwnCommand DEF HandlerInv
<1>2. /\ Later(schedule[LoanOf(q)], schedule'[LoanOf(q)])
      /\ \A n \in DOMAIN schedule[LoanOf(q)] : AddsUp(schedule[LoanOf(q)][n])
  BY <1>1, ScheduleStep DEF InstalmentsAddUp
<1>3. \A n \in DOMAIN frame'[q].items :
          /\ n \in DOMAIN schedule'[LoanOf(q)]
          /\ frame'[q].items[n].due = schedule'[LoanOf(q)][n].due
          /\ AddsUp(frame'[q].items[n])
  BY <1>1, <1>2 DEF FrameInv, Later
<1>4. \A n \in DOMAIN frame'[q].items : AddsUp(frame[q].items[n])'
  BY <1>3 DEF AddsUp
<1>5. QED
  BY <1>3, <1>4 DEF FrameInv, LoanOf

\* A step of one request leaves the others where they are.
LEMMA OthersStay ==
    ASSUME TypeOK, LP!TypeOK, NEW r \in Request, NEW q \in Request, r # q,
           Arrive(r) \/ Advance(r) \/ Crash(r)
    PROVE  /\ pc'[q] = pc[q] /\ command'[q] = command[q] /\ frame'[q] = frame[q]
           /\ ledgerPc'[q] = ledgerPc[q] /\ ledgerCommand'[q] = ledgerCommand[q]
           /\ repayments'[q] = repayments[q] /\ exceptions \subseteq exceptions'
<1>1. /\ ledgerPc \in [Request -> {"idle"} \cup LP!Step \cup LP!Finished]
      /\ ledgerCommand \in [Request -> LP!Command \cup {NoCommand}]
      /\ pc \in [Request -> {"idle"} \cup Step \cup Finished]
      /\ command \in [Request -> Instruction \cup {NoCommand}]
      /\ frame \in [Request -> Frame]
      /\ repayments \in [Request -> RepaymentRow \cup {NoRepayment}]
  BY DEF TypeOK, LP!TypeOK
<1> USE DEF Goto, Leave, ledgerVars, tables
<1>2. CASE Arrive(r) \/ TurnedAway(r) \/ LoanRefused(r) \/ LedgerRefused(r) \/ AppendAudit(r)
  BY <1>1, <1>2 DEF Arrive, TurnedAway, LoanRefused, LedgerRefused, AppendAudit
<1>3. CASE LedgerStep(r)
  BY <1>1, <1>3 DEF LedgerStep, Ledger!Lookup, Ledger!Insert, Ledger!Audit, Ledger!Goto,
     Ledger!Return
<1>4. CASE Crash(r)
  BY <1>1, <1>4 DEF Crash, Ledger!Crash, Ledger!Goto
<1>5. CASE Disbursement(r)
  BY <1>1, <1>5 DEF Disbursement, ReadForDisbursement, Activate, Ledger!StartPost, Ledger!Goto
<1>6. CASE LookupRepayment(r)
  BY <1>1, <1>6 DEF LookupRepayment, Ledger!StartPost, Ledger!Goto
<1>7. CASE ReadForRepayment(r) \/ CheckEvidence(r) \/ InsertRepayment(r) \/ ReadSchedule(r)
  BY <1>1, <1>7 DEF ReadForRepayment, CheckEvidence, InsertRepayment, ReadSchedule
<1>8. CASE UpdateItem(r)
  <2>1. frame'[q] = frame[q]
    BY <1>1, <1>8 DEF UpdateItem
  <2>2. QED
    BY <1>1, <1>8, <2>1 DEF UpdateItem
<1>9. CASE CountUnpaid(r) \/ Complete(r) \/ ReadForException(r) \/ InsertException(r)
  BY <1>1, <1>9 DEF CountUnpaid, Complete, ReadForException, InsertException
<1>10. CASE WaiveItem(r) \/ Rescheduling(r)
  BY <1>1, <1>10 DEF WaiveItem, Rescheduling, Supersede, CreateItems, MarkRescheduled
<1>11. QED
  BY <1>2, <1>3, <1>4, <1>5, <1>6, <1>7, <1>8, <1>9, <1>10 DEF Advance, Repayment

\* A request that returned, threw or died relies on nothing any more.
LEMMA Left ==
    ASSUME TypeOK, NEW r \in Request, NEW how \in Finished, Leave(r, how)
    PROVE  Handler(r)' /\ FrameInv(r)'
<1>1. pc'[r] = how /\ frame'[r] = EmptyFrame
  BY DEF Leave, Goto, TypeOK
<1>2. how \notin Step /\ how # "idle"
  BY DEF Finished, Refusal, Step, RepayStep, WaiveStep, RescheduleStep
<1>3. Handler(r)'
  BY <1>1, <1>2 DEF Handler, Step, RepayStep, WaiveStep, RescheduleStep
<1>4. QED
  BY <1>1, <1>2, <1>3, EmptyFrameSound

\* The steps that every service takes.
LEMMA OwnCommonStep ==
    ASSUME TypeOK, HandlerInv, LedgerInv, InstalmentsAddUp, NEW r \in Request,
           \/ Arrive(r) \/ TurnedAway(r) \/ LoanRefused(r) \/ LedgerStep(r) \/ LedgerRefused(r)
           \/ AppendAudit(r) \/ Crash(r)
    PROVE  Handler(r)' /\ FrameInv(r)'
<1>1. Handler(r) /\ FrameInv(r)
  BY DEF HandlerInv
<1>2. [Next]_vars
  BY DEF Next, Advance
<1>3. CASE Arrive(r)
  <2>1. /\ pc[r] = "idle" /\ pc'[r] = "start" /\ command'[r] \in Instruction
        /\ UNCHANGED <<ledgerVars, tables, frame>>
    BY <1>3 DEF Arrive, Goto, TypeOK
  <2>2. frame'[r] = EmptyFrame
    BY <1>1, <2>1 DEF FrameInv, Step, RepayStep, WaiveStep, RescheduleStep
  <2>3. FrameInv(r)'
    BY <2>1, <2>2, EmptyFrameSound
  <2>4. Handler(r)'
    BY <1>1, <2>1 DEF Handler, ledgerVars, tables, Step, RepayStep, WaiveStep, RescheduleStep
  <2>5. QED
    BY <2>3, <2>4
<1>4. CASE TurnedAway(r) \/ LoanRefused(r) \/ LedgerRefused(r) \/ AppendAudit(r) \/ Crash(r)
  <2>1. \E how \in Finished : Leave(r, how)
    BY <1>4 DEF TurnedAway, LoanRefused, LedgerRefused, AppendAudit, Crash, Finished, Refusal
  <2>2. QED
    BY <2>1, Left
<1>5. CASE LedgerStep(r)
  <2>1. pc[r] = "posting" /\ UNCHANGED <<tables, pc, command, frame>>
    BY <1>5 DEF LedgerStep
  <2>2. /\ ledgerPc'[r] \in Ledger!PostStep \cup {"done", "refused"}
        /\ ledgerCommand' = ledgerCommand
    <3>1. ledgerPc \in [Request -> {"idle"} \cup LP!Step \cup LP!Finished]
      BY DEF LedgerInv, LP!TypeOK
    <3>2. QED
      BY <1>5, <3>1 DEF LedgerStep, Ledger!Lookup, Ledger!Insert, Ledger!Audit, Ledger!Goto,
         Ledger!Return, Ledger!PostStep
  <2>3. Handler(r)'
    BY <1>1, <2>1, <2>2
       DEF Handler, tables, LoanOf, Step, RepayStep, WaiveStep, RescheduleStep
  <2>4. FrameInv(r)'
    BY <1>1, <2>1 DEF FrameInv, tables, LoanOf
  <2>5. QED
    BY <2>3, <2>4
<1>6. QED
  BY <1>3, <1>4, <1>5

\* A loan that a repayment or an exception found ACTIVE is not APPROVED again.
LEMMA StillLent ==
    ASSUME TypeOK, HandlerInv, [Next]_vars, NEW r \in Request,
           pc[r] \in Step \ {"start"}, command[r].op # "disburse"
    PROVE  state'[LoanOf(r)] # "APPROVED"
BY OwnCommand, StateStep DEF HandlerInv, Handler

\* Starting a ledger call.
LEMMA Started ==
    ASSUME LP!TypeOK, NEW r \in Request, NEW c, Ledger!StartPost(r, c)
    PROVE  /\ ledgerPc'[r] \in Ledger!PostStep \cup {"done", "refused"}
           /\ ledgerCommand'[r] = c
<1>1. /\ ledgerPc \in [Request -> {"idle"} \cup LP!Step \cup LP!Finished]
      /\ ledgerCommand \in [Request -> LP!Command \cup {NoCommand}]
  BY DEF LP!TypeOK
<1>2. QED
  BY <1>1 DEF Ledger!StartPost, Ledger!Goto, Ledger!PostStep

\* The steps of a disbursement and of a repayment up to its insert.
LEMMA OwnPostingStep ==
    ASSUME TypeOK, HandlerInv, LedgerInv, InstalmentsAddUp, NEW r \in Request,
           \/ Disbursement(r) \/ ReadForRepayment(r) \/ CheckEvidence(r)
           \/ LookupRepayment(r) \/ InsertRepayment(r)
    PROVE  Handler(r)' /\ FrameInv(r)'
<1>1. Handler(r) /\ FrameInv(r)
  BY DEF HandlerInv
<1>2. [Next]_vars
  BY DEF Next, Advance, Repayment
<1>3. frame[r] \in Frame /\ LP!TypeOK
  BY DEF TypeOK, LedgerInv
<1> USE DEF Step, RepayStep, WaiveStep, RescheduleStep
<1>4. pc[r] \in Step => frame[r].todo \subseteq DOMAIN schedule[LoanOf(r)]
  BY <1>1 DEF FrameInv
<1>5. ASSUME pc[r] \in Step, NEW s, Goto(r, s), s \in Step, frame'[r] = frame[r],
             UNCHANGED command, s \notin RescheduleStep,
             s = "posting" => command[r].op = "disburse"
      PROVE  FrameInv(r)'
  <2>1. pc'[r] = s
    BY <1>5 DEF Goto, TypeOK
  <2>2. QED
    BY <1>1, <1>2, <1>5, <2>1, FrameSound DEF FrameInv
<1>6. CASE ReadForDisbursement(r)
  <2>1. /\ pc[r] = "start" /\ command[r].op = "disburse" /\ Goto(r, "posting")
        /\ UNCHANGED <<tables, command, frame>> /\ Ledger!StartPost(r, DisburseCommand(r))
    BY <1>6 DEF ReadForDisbursement
  <2>2. /\ ledgerPc'[r] \in Ledger!PostStep \cup {"done", "refused"}
        /\ ledgerCommand'[r] = DisburseCommand(r)
    BY <1>3, <2>1, Started
  <2>3. pc'[r] = "posting"
    BY <2>1 DEF Goto, TypeOK
  <2>4. Handler(r)'
    BY <1>1, <2>1, <2>2, <2>3 DEF Handler, tables, DisburseCommand, LoanOf, DisbursementKey
  <2>5. FrameInv(r)'
    BY <1>5, <2>1
  <2>6. QED
    BY <2>4, <2>5
<1>7. CASE Activate(r)
  <2>1. /\ pc[r] = "posting" /\ command[r].op = "disburse" /\ Goto(r, "audit")
        /\ state' = [state EXCEPT ![LoanOf(r)] = "ACTIVE"] /\ UNCHANGED <<command, frame>>
    BY <1>7 DEF Activate
  <2>2. LoanOf(r) \in Loan
    BY <2>1, OwnCommand
  <2>3. pc'[r] = "audit" /\ state'[LoanOf(r)] = "ACTIVE"
    BY <2>1, <2>2 DEF Goto, TypeOK
  <2>4. Handler(r)'
    BY <1>1, <2>1, <2>3 DEF Handler, LoanOf
  <2>5. FrameInv(r)'
    BY <1>5, <2>1
  <2>6. QED
    BY <2>4, <2>5
<1>8. CASE ReadForRepayment(r)
  <2>1. CASE Leave(r, "refused")
    BY <2>1, Left DEF Finished, Refusal
  <2>2. CASE ~Leave(r, "refused")
    <3>1. /\ pc[r] = "start" /\ command[r].op = "repay" /\ Goto(r, "evidence")
          /\ frame' = [frame EXCEPT ![r].items = schedule[LoanOf(r)]]
          /\ UNCHANGED <<ledgerVars, tables, command>> /\ state[LoanOf(r)] = "ACTIVE"
      BY <1>8, <2>2 DEF ReadForRepayment, ReadAsWanted, StateWanted
    <3>2. pc'[r] = "evidence"
      BY <3>1 DEF Goto, TypeOK
    <3>3. /\ frame'[r].items = schedule[LoanOf(r)] /\ frame'[r].todo = frame[r].todo
          /\ frame'[r].left = frame[r].left
      BY <1>3, <3>1 DEF TypeOK, Frame
    <3>4. FrameInv(r)'
      BY <1>1, <1>2, <1>4, <3>1, <3>2, <3>3, FrameSound DEF FrameInv
    <3>5. Handler(r)'
      BY <1>1, <3>1, <3>2 DEF Handler, ledgerVars, tables, LoanOf
    <3>6. QED
      BY <3>4, <3>5
  <2>3. QED
    BY <2>1, <2>2
<1>9. CASE CheckEvidence(r)
  <2>1. CASE Leave(r, "refused")
    BY <2>1, Left DEF Finished, Refusal
  <2>2. CASE ~Leave(r, "refused")
    <3>1. /\ pc[r] = "evidence" /\ Goto(r, "lookup")
          /\ UNCHANGED <<ledgerVars, tables, command, frame>>
      BY <1>9, <2>2 DEF CheckEvidence
    <3>2. pc'[r] = "lookup"
      BY <3>1 DEF Goto, TypeOK
    <3>3. Handler(r)'
      BY <1>1, <1>2, <3>1, <3>2, StillLent DEF Handler, LoanOf, ledgerVars, tables
    <3>4. FrameInv(r)'
      BY <1>5, <3>1
    <3>5. QED
      BY <3>3, <3>4
  <2>3. QED
    BY <2>1, <2>2
<1>10. CASE LookupRepayment(r)
  <2>1. pc[r] = "lookup" /\ UNCHANGED <<tables, command>> /\ command[r].op = "repay"
    BY <1>10, OwnCommand DEF LookupRepayment
  <2>2. CASE \E how \in Finished : Leave(r, how)
    BY <2>2, Left
  <2>3. CASE /\ FullyAllocated(r)
             /\ Ledger!StartPost(r, RepayCommand(r))
             /\ frame' = [frame EXCEPT ![r].left = AllocationOf(r)]
             /\ Goto(r, "posting")
    <3>1. /\ ledgerPc'[r] \in Ledger!PostStep \cup {"done", "refused"}
          /\ ledgerCommand'[r] = RepayCommand(r)
      BY <1>3, <2>3, Started
    <3>2. pc'[r] = "posting"
      BY <2>3 DEF Goto, TypeOK
    <3>3. Handler(r)'
      BY <1>1, <2>1, <3>1, <3>2
         DEF Handler, tables, RepayCommand, LoanOf, LedgerRepaymentKey
    <3>4. /\ frame'[r].items = frame[r].items /\ frame'[r].todo = frame[r].todo
          /\ frame'[r].left = AllocationOf(r)
      BY <1>3, <2>3 DEF TypeOK, Frame
    <3>5. /\ AllocationOf(r) \in Split(command[r].amount)
          /\ AllocationOf(r) \in [Part -> Nat]
      BY <2>1, <2>3, OwnCommand, RepayCommandType DEF FullyAllocated
    <3>6. \A part \in Part : frame'[r].left[part] >= 0
      BY <3>4, <3>5
    <3>7. FrameInv(r)'
      BY <1>1, <1>2, <2>1, <3>2, <3>4, <3>5, <3>6, FrameSound DEF FrameInv
    <3>8. QED
      BY <3>3, <3>7
  <2>4. QED
    BY <1>10, <2>2, <2>3 DEF LookupRepayment, Finished, Refusal
<1>11. CASE InsertRepayment(r)
  <2>1. pc[r] = "posting" /\ command[r].op = "repay" /\ UNCHANGED command
    BY <1>11 DEF InsertRepayment
  <2>2. CASE Leave(r, "refused")
    BY <2>2, Left DEF Finished, Refusal
  <2>3. CASE /\ repayments' = [repayments EXCEPT ![r] = NewRepayment(r)]
             /\ Goto(r, "reading") /\ UNCHANGED frame
    <3>1. NewRepayment(r) \in RepaymentRow
      BY <1>11, NewRepaymentType
    <3>2. pc'[r] = "reading" /\ repayments'[r] # NoRepayment
      BY <2>3, <3>1, LoanServicingAssumption DEF Goto, TypeOK
    <3>3. Handler(r)'
      BY <1>1, <1>2, <2>1, <3>2, StillLent DEF Handler, LoanOf, Stored
    <3>4. FrameInv(r)'
      BY <1>5, <2>1, <2>3
    <3>5. QED
      BY <3>3, <3>4
  <2>4. QED
    BY <1>11, <2>2, <2>3 DEF InsertRepayment
<1>12. QED
  BY <1>6, <1>7, <1>8, <1>9, <1>10, <1>11 DEF Disbursement

\* The steps of a repayment after its insert, of a waiver and of a reschedule.
LEMMA OwnScheduleStep ==
    ASSUME TypeOK, HandlerInv, InstalmentsAddUp, NEW r \in Request,
           \/ ReadSchedule(r) \/ UpdateItem(r) \/ CountUnpaid(r) \/ Complete(r)
           \/ ReadForException(r) \/ InsertException(r) \/ WaiveItem(r) \/ Rescheduling(r)
    PROVE  Handler(r)' /\ FrameInv(r)'
<1>1. Handler(r) /\ FrameInv(r)
  BY DEF HandlerInv
<1>2. [Next]_vars
  BY DEF Next, Advance, Repayment
<1>3. frame[r] \in Frame
  BY DEF TypeOK
<1> USE DEF Step, RepayStep, WaiveStep, RescheduleStep
<1>4. ASSUME pc[r] \in Step, NEW s, Goto(r, s), s \in Step, frame'[r] = frame[r],
             UNCHANGED command, s # "posting",
             s \in RescheduleStep \ {"marking"} =>
                 command[r].terms >= 1 /\ OutstandingPrincipal(frame[r].items) \in Nat \ {0}
      PROVE  pc'[r] = s /\ FrameInv(r)'
  <2>1. pc'[r] = s
    BY <1>4 DEF Goto, TypeOK
  <2>2. QED
    BY <1>1, <1>2, <1>4, <2>1, FrameSound DEF FrameInv
<1>5. CASE ReadSchedule(r)
  <2>1. /\ pc[r] = "reading" /\ Goto(r, "updating") /\ UNCHANGED <<ledgerVars, tables, command>>
        /\ frame' = [frame EXCEPT ![r].items = schedule[LoanOf(r)],
                                  ![r].todo = Payable(schedule[LoanOf(r)])]
    BY <1>5 DEF ReadSchedule
  <2>2. pc'[r] = "updating"
    BY <2>1 DEF Goto, TypeOK
  <2>3. /\ frame'[r].items = schedule[LoanOf(r)] /\ frame'[r].left = frame[r].left
        /\ frame'[r].todo = Payable(schedule[LoanOf(r)])
    BY <1>3, <2>1 DEF TypeOK, Frame
  <2>4. FrameInv(r)'
    BY <1>1, <1>2, <2>1, <2>2, <2>3, FrameSound DEF FrameInv, Payable, Active
  <2>5. Handler(r)'
    BY <1>1, <1>2, <2>1, <2>2, StillLent DEF Handler, LoanOf, tables, ledgerVars, Stored
  <2>6. QED
    BY <2>4, <2>5
<1>6. CASE UpdateItem(r)
  <2>1. /\ pc[r] = "updating" /\ command[r].op = "repay"
        /\ UNCHANGED <<ledgerVars, state, repayments, exceptions, trail, command>>
    BY <1>6, OwnCommand DEF UpdateItem
  <2>2. pc'[r] \in {"updating", "counting"}
    BY <1>6, <2>1 DEF UpdateItem, Goto, TypeOK
  <2>3. Handler(r)'
    BY <1>1, <1>2, <2>1, <2>2, StillLent DEF Handler, LoanOf, ledgerVars, Stored
  <2>4. FrameInv(r)'
    BY <1>1, <1>2, <1>6, <2>1, <2>2, UpdatedFrame, FrameSound DEF FrameInv
  <2>5. QED
    BY <2>3, <2>4
<1>7. CASE CountUnpaid(r) \/ Complete(r)
  <2>1. /\ pc[r] \in {"counting", "completing"} /\ command[r].op = "repay" /\ r \in Stored
        /\ UNCHANGED <<ledgerVars, repayments, exceptions, command, frame>>
    BY <1>1, <1>7, OwnCommand DEF CountUnpaid, Complete, tables, Handler
  <2>2. Goto(r, "completing") \/ Goto(r, "audit")
    BY <1>7 DEF CountUnpaid, Complete
  <2>3. pc'[r] \in {"completing", "audit"} /\ FrameInv(r)'
    BY <1>4, <2>1, <2>2
  <2>4. Handler(r)'
    BY <1>1, <1>2, <2>1, <2>3, StillLent DEF Handler, LoanOf, ledgerVars, Stored
  <2>5. QED
    BY <2>3, <2>4
<1>8. CASE ReadForException(r)
  <2>1. CASE Leave(r, "refused")
    BY <2>1, Left DEF Finished, Refusal
  <2>2. CASE ~Leave(r, "refused")
    <3>1. /\ pc[r] = "start"
          /\ frame' = [frame EXCEPT ![r].items = schedule[LoanOf(r)]]
          /\ UNCHANGED <<ledgerVars, tables, command>> /\ state[LoanOf(r)] = "ACTIVE"
          /\ \/ command[r].op = "waive" /\ Goto(r, "waiverEvent")
             \/ /\ command[r].op = "reschedule" /\ Goto(r, "rescheduleEvent")
                /\ command[r].terms >= 1
                /\ OutstandingPrincipal(schedule[LoanOf(r)]) \in Nat \ {0}
      BY <1>8, <2>2 DEF ReadForException, ReadAsWanted, StateWanted
    <3>2. /\ frame'[r].items = schedule[LoanOf(r)] /\ frame'[r].todo = frame[r].todo
          /\ frame'[r].left = frame[r].left
      BY <1>3, <3>1 DEF TypeOK, Frame
    <3>3. frame[r].todo \subseteq DOMAIN schedule[LoanOf(r)]
      BY <1>1 DEF FrameInv
    <3>4. \/ command[r].op = "waive" /\ pc'[r] = "waiverEvent"
          \/ /\ command[r].op = "reschedule" /\ pc'[r] = "rescheduleEvent"
             /\ command[r].terms >= 1
             /\ OutstandingPrincipal(frame'[r].items) \in Nat \ {0}
      BY <3>1, <3>2 DEF Goto, TypeOK
    <3>5. FrameInv(r)'
      BY <1>1, <1>2, <3>1, <3>2, <3>3, <3>4, FrameSound DEF FrameInv
    <3>6. Handler(r)'
      BY <1>1, <3>1, <3>4 DEF Handler, ledgerVars, tables, LoanOf
    <3>7. QED
      BY <3>5, <3>6
  <2>3. QED
    BY <2>1, <2>2
<1>9. CASE InsertException(r)
  <2>1. /\ pc[r] \in {"waiverEvent", "rescheduleEvent"}
        /\ command[r].op = IF pc[r] = "waiverEvent" THEN "waive" ELSE "reschedule"
        /\ Goto(r, IF pc[r] = "waiverEvent" THEN "waiving" ELSE "superseding")
        /\ UNCHANGED <<ledgerVars, repayments, command, frame>> /\ r \in exceptions'
    BY <1>9, OwnCommand DEF InsertException
  <2>2. FrameInv(r)' /\ pc'[r] = IF pc[r] = "waiverEvent" THEN "waiving" ELSE "superseding"
    BY <1>1, <1>4, <2>1 DEF FrameInv
  <2>3. Handler(r)'
    BY <1>1, <1>2, <2>1, <2>2, StillLent DEF Handler, LoanOf
  <2>4. QED
    BY <2>2, <2>3
<1>10. CASE WaiveItem(r)
  <2>1. /\ pc[r] = "waiving" /\ command[r].op = "waive" /\ Goto(r, "audit")
        /\ UNCHANGED <<ledgerVars, exceptions, repayments, command, frame>>
    BY <1>10, OwnCommand DEF WaiveItem
  <2>2. FrameInv(r)' /\ pc'[r] = "audit"
    BY <1>4, <2>1
  <2>3. r \in exceptions
    BY <1>1, <2>1 DEF Handler
  <2>4. Handler(r)'
    BY <1>1, <1>2, <2>1, <2>2, <2>3, StillLent DEF Handler, LoanOf
  <2>5. QED
    BY <2>2, <2>4
<1>11. CASE Rescheduling(r)
  <2>1. CASE Leave(r, "refused")
    BY <2>1, Left DEF Finished, Refusal
  <2>2. CASE ~Leave(r, "refused")
    <3>1. /\ pc[r] \in RescheduleStep \ {"rescheduleEvent"} /\ command[r].op = "reschedule"
          /\ UNCHANGED <<ledgerVars, repayments, exceptions, command, frame>>
          /\ \/ pc[r] = "superseding" /\ Goto(r, "creating")
             \/ Goto(r, "marking")
             \/ Goto(r, "audit")
      BY <1>11, <2>2, OwnCommand DEF Rescheduling, Supersede, CreateItems, MarkRescheduled
    <3>2. FrameInv(r)' /\ pc'[r] \in {"creating", "marking", "audit"}
      BY <1>1, <1>4, <3>1 DEF FrameInv
    <3>3. r \in exceptions
      BY <1>1, <3>1 DEF Handler
    <3>4. Handler(r)'
      BY <1>1, <1>2, <3>1, <3>2, <3>3, StillLent DEF Handler, LoanOf
    <3>5. QED
      BY <3>2, <3>4
  <2>3. QED
    BY <2>1, <2>2
<1>12. QED
  BY <1>5, <1>6, <1>7, <1>8, <1>9, <1>10, <1>11

LEMMA HandlerStep == IInv /\ [Next]_vars => HandlerInv'
<1> SUFFICES ASSUME TypeOK, HandlerInv, LedgerInv, InstalmentsAddUp, [Next]_vars,
                    NEW q \in Request
             PROVE  Handler(q)' /\ FrameInv(q)'
  BY DEF IInv, HandlerInv
<1>1. CASE UNCHANGED vars
  BY <1>1, Undisturbed DEF vars, tables, ledgerVars
<1>2. ASSUME NEW r \in Request, Arrive(r) \/ Advance(r) \/ Crash(r)
      PROVE  Handler(q)' /\ FrameInv(q)'
  <2>1. CASE q = r
    BY <1>2, <2>1, OwnCommonStep, OwnPostingStep, OwnScheduleStep DEF Advance, Repayment
  <2>2. CASE q # r
    BY <1>2, <2>2, OthersStay, Undisturbed DEF LedgerInv
  <2>3. QED
    BY <2>1, <2>2
<1>3. QED
  BY <1>1, <1>2 DEF Next
-----------------------------------------------------------------------------
LEMMA InitInv == Init => IInv
<1> SUFFICES ASSUME Init PROVE IInv
  OBVIOUS
<1>1. LP!Init
  BY DEF Init, Ledger!Init, LP!Init
<1>2. LedgerInv
  BY <1>1 DEF LedgerInv, LP!Init, LP!TypeOK, LP!CallInv, LP!CallShape, LP!OwnRow,
     LP!OriginalRead, LP!OneEventPerKey, LP!ReversalNegates, LP!ReturnsOwnEvent,
     LP!Ids, LP!Step, LP!PostStep, LP!ReversalStep, LP!Finished
<1>3. ASSUME NEW l \in Loan
      PROVE  schedule[l] \in Seq(ItemRow) /\ \A n \in DOMAIN schedule[l] : AddsUp(schedule[l][n])
  <2> DEFINE principal == Contract[l].principal
             terms == Contract[l].terms
             rate == Contract[l].rateBps
  <2>1. schedule[l] = GenerateSchedule(principal, terms, rate)
    BY DEF Init
  <2>2. principal \in Nat /\ terms \in Nat \ {0} /\ rate \in Nat
    BY LoanFacts
  <2> HIDE DEF principal, terms, rate
  <2>3. /\ schedule[l] \in Seq(ItemRow) /\ Len(schedule[l]) = terms
        /\ \A n \in 1..terms : AddsUp(schedule[l][n])
    BY <2>1, <2>2, GeneratedRows
  <2>4. DOMAIN schedule[l] = 1..terms
    BY <2>3
  <2>5. QED
    BY <2>3, <2>4
<1>4. schedule \in [Loan -> Seq(ItemRow)] /\ InstalmentsAddUp
  BY <1>3 DEF Init, InstalmentsAddUp
<1>5. /\ EmptyFrame \in Frame /\ EmptyFrame.items = <<>> /\ EmptyFrame.todo = {}
      /\ \A part \in Part : EmptyFrame.left[part] >= 0
  BY DEF EmptyFrame, Frame, Nothing
<1>6. Ledger!TypeOK
  BY <1>2, SameType DEF LedgerInv
<1>7. TypeOK
  BY <1>4, <1>5, <1>6 DEF Init, TypeOK, LoanState
<1>8. HandlerInv
  BY <1>5 DEF Init, Ledger!Init, HandlerInv, Handler, FrameInv, Step, RepayStep, WaiveStep,
     RescheduleStep
<1>9. QED
  BY <1>2, <1>4, <1>7, <1>8 DEF IInv

LEMMA InvStep == IInv /\ [Next]_vars => IInv'
<1> SUFFICES ASSUME IInv, [Next]_vars PROVE IInv'
  OBVIOUS
<1>1. LedgerInv'
  BY IsLedgerStep, LedgerInvStep DEF IInv
<1>2. TypeOK'
  BY TypeStep DEF IInv
<1>3. InstalmentsAddUp'
  BY ScheduleStep DEF IInv, InstalmentsAddUp, RowsSound
<1>4. QED
  BY <1>1, <1>2, <1>3, HandlerStep DEF IInv

\* Types, and what each statement of a request relies on, for any number of
\* overlapping disbursements, repayments, waivers and reschedules.
THEOREM RequestsCorrect == Spec => [](TypeOK /\ HandlerInv /\ LedgerInv)
<1>1. Spec => []IInv
  BY InitInv, InvStep, PTL DEF Spec
<1>2. IInv => TypeOK /\ HandlerInv /\ LedgerInv
  BY DEF IInv
<1>3. QED
  BY <1>1, <1>2, PTL

\* No instalment is ever paid beyond what is due on it, however stale the rows
\* that requests write back, and a PAID one is paid in every part.
THEOREM InstalmentsSound == Spec => []InstalmentsAddUp
<1>1. IInv => InstalmentsAddUp
  BY DEF IInv
<1>2. QED
  BY <1>1, InitInv, InvStep, PTL DEF Spec

\* The services use the ledger as it is specified, so that what is proved of
\* LedgerPosting holds of the ledger tables here.
THEOREM UsesLedger == Spec => LP!Spec
<1>1. Init => LP!Init
  BY DEF Init, Ledger!Init, LP!Init
<1>2. TypeOK /\ HandlerInv /\ [Next]_vars => [LP!Next]_LP!vars
  BY IsLedgerStep
<1>3. QED
  BY <1>1, <1>2, RequestsCorrect, PTL DEF Spec, LP!Spec
-----------------------------------------------------------------------------
\* A repayment that was not there before was inserted under a free key, with
\* the event that the ledger returned.
LEMMA NewlyStored ==
    ASSUME TypeOK, HandlerInv, [Next]_vars, NEW q \in Stored', q \notin Stored
    PROVE  /\ InsertRepayment(q) /\ q \in Request
           /\ WithKey(command[q].key) = {}
           /\ repayments'[q] = NewRepayment(q)
           /\ \A x \in Stored' : x = q \/ x \in Stored
<1>1. q \in Request /\ repayments'[q] # repayments[q]
  BY DEF Stored, TypeOK
<1>2. PICK r \in Request : /\ InsertRepayment(r) /\ ~KeyTaken(r)
                           /\ repayments' = [repayments EXCEPT ![r] = NewRepayment(r)]
  BY <1>1, RepaymentsStep
<1>3. r = q
  BY <1>1, <1>2 DEF TypeOK
<1>4. QED
  BY <1>1, <1>2, <1>3 DEF KeyTaken, Stored, TypeOK

LEMMA OneRepaymentPerKeyStep ==
    TypeOK /\ HandlerInv /\ OneRepaymentPerKey /\ [Next]_vars => OneRepaymentPerKey'
<1> SUFFICES ASSUME TypeOK, HandlerInv, OneRepaymentPerKey, [Next]_vars,
                    NEW c \in Stored', NEW d \in Stored',
                    repayments'[c].key = repayments'[d].key
             PROVE  c = d
  BY DEF OneRepaymentPerKey
<1>1. ASSUME NEW x \in Stored', NEW y \in Stored', x \notin Stored,
             repayments'[x].key = repayments'[y].key
      PROVE  x = y
  <2>1. /\ WithKey(command[x].key) = {} /\ repayments'[x] = NewRepayment(x)
        /\ y = x \/ y \in Stored
    BY <1>1, NewlyStored
  <2>2. repayments'[x].key = command[x].key
    BY <2>1 DEF NewRepayment
  <2>3. CASE y \in Stored
    <3>1. repayments[y].key = command[x].key
      BY <1>1, <2>2, <2>3, RepaymentsKept
    <3>2. QED
      BY <2>1, <2>3, <3>1 DEF WithKey
  <2>4. QED
    BY <2>1, <2>3
<1>2. CASE c \in Stored /\ d \in Stored
  BY <1>2, RepaymentsKept DEF OneRepaymentPerKey
<1>3. QED
  BY <1>1, <1>2

\* A key records one repayment, however many requests carry it, overlap, and
\* die between the posting and the insert.
THEOREM AtMostOneRepaymentPerKey == Spec => []OneRepaymentPerKey
<1>1. Init => OneRepaymentPerKey
  BY DEF Init, OneRepaymentPerKey, Stored
<1>2. QED
  BY <1>1, RequestsCorrect, OneRepaymentPerKeyStep, PTL DEF Spec
-----------------------------------------------------------------------------
LEMMA SameIds == Ledger!Ids(events) = LP!Ids(events)
BY DEF Ledger!Ids, LP!Ids

LEMMA PostedDef ==
    ASSUME NEW key
    PROVE  Posted(key) = {e \in LP!Ids(events) : events[e].key = key}
BY DEF Posted, Ledger!ByKey, Ledger!Ids, LP!Ids

\* What was posted under a key stays posted, in the tenant that it has.
LEMMA PostedKept ==
    ASSUME TypeOK, HandlerInv, LedgerInv, [Next]_vars, NEW key, NEW e \in Posted(key)
    PROVE  e \in Posted(key)' /\ events'[e] = events[e]
<1>1. e \in LP!Ids(events) /\ events[e].key = key
  BY PostedDef
<1>2. events'[e] = events[e] /\ e \in LP!Ids(events)'
  BY <1>1, IsLedgerStep, EventsKept
<1>3. QED
  BY <1>1, <1>2 DEF Posted, Ledger!ByKey, Ledger!Ids, LP!Ids

LEMMA RepaymentIsPostedStep ==
    TypeOK /\ HandlerInv /\ LedgerInv /\ RepaymentIsPosted /\ [Next]_vars => RepaymentIsPosted'
<1> SUFFICES ASSUME TypeOK, HandlerInv, LedgerInv, RepaymentIsPosted, [Next]_vars,
                    NEW q \in Stored'
             PROVE  /\ repayments'[q].ledgerEvent \in LP!Ids(events)'
                    /\ events'[repayments'[q].ledgerEvent].key =
                          LedgerRepaymentKey(repayments'[q].key)
                    /\ events'[repayments'[q].ledgerEvent].tenant = repayments'[q].tenant
                    /\ Total(repayments'[q].parts) = repayments'[q].amount
  BY DEF RepaymentIsPosted, LedgerRepaymentKey, Total, Posted, Ledger!ByKey, Ledger!Ids, LP!Ids
<1>1. CASE q \in Stored
  <2>1. repayments'[q] = repayments[q]
    BY <1>1, RepaymentsKept
  <2>2. /\ repayments[q].ledgerEvent \in LP!Ids(events)
        /\ events[repayments[q].ledgerEvent].key = LedgerRepaymentKey(repayments[q].key)
        /\ events[repayments[q].ledgerEvent].tenant = repayments[q].tenant
        /\ Total(repayments[q].parts) = repayments[q].amount
    BY <1>1, PostedDef DEF RepaymentIsPosted
  <2>3. QED
    BY <2>1, <2>2, IsLedgerStep, EventsKept
<1>2. CASE q \notin Stored
  <2>1. InsertRepayment(q) /\ q \in Request /\ repayments'[q] = NewRepayment(q)
    BY <1>2, NewlyStored
  <2>2. pc[q] = "posting" /\ command[q].op = "repay" /\ ledgerPc[q] = "done"
    BY <2>1 DEF InsertRepayment, LedgerReturned
  <2>3. /\ ledgerResult[q] \in LP!Ids(events)
        /\ events[ledgerResult[q]].key = LedgerRepaymentKey(command[q].key)
        /\ events[ledgerResult[q]].tenant = command[q].tenant
    BY <2>1, <2>2, PostingReturned
  <2>4. Total(frame[q].left) = command[q].amount
    BY <2>1, <2>2 DEF HandlerInv, FrameInv, Split
  <2>5. events'[ledgerResult[q]] = events[ledgerResult[q]] /\ ledgerResult[q] \in LP!Ids(events)'
    BY <2>3, IsLedgerStep, EventsKept
  <2>6. QED
    BY <2>1, <2>3, <2>4, <2>5 DEF NewRepayment
<1>3. QED
  BY <1>1, <1>2

\* Every repayment is backed by a ledger event of its own tenant and key, also
\* when another request posted it, and its parts make up its amount.
THEOREM EveryRepaymentIsPosted == Spec => []RepaymentIsPosted
<1>1. Init => RepaymentIsPosted
  BY DEF Init, RepaymentIsPosted, Stored
<1>2. QED
  BY <1>1, RequestsCorrect, RepaymentIsPostedStep, PTL DEF Spec
-----------------------------------------------------------------------------
LEMMA DisbursedIsPostedStep ==
    TypeOK /\ HandlerInv /\ LedgerInv /\ DisbursedIsPosted /\ [Next]_vars => DisbursedIsPosted'
<1> SUFFICES ASSUME TypeOK, HandlerInv, LedgerInv, DisbursedIsPosted, [Next]_vars,
                    NEW l \in Loan, state'[l] # "APPROVED"
             PROVE  Posted(DisbursementKey(l))' # {}
  BY DEF DisbursedIsPosted, DisbursementKey
<1>1. CASE state[l] # "APPROVED"
  BY <1>1, PostedKept DEF DisbursedIsPosted
<1>2. CASE state[l] = "APPROVED"
  <2>1. PICK r \in Request : Activate(r) /\ LoanOf(r) = l
    BY <1>2, StateMove
  <2>2. /\ ledgerCommand[r].op = "post" /\ ledgerCommand[r].key = DisbursementKey(l)
        /\ ledgerPc[r] = "done"
    BY <2>1 DEF Activate, LedgerReturned, HandlerInv, Handler
  <2>3. ledgerResult[r] \in Posted(DisbursementKey(l))
    BY <2>2, PostedDef DEF LedgerInv, LP!ReturnsOwnEvent
  <2>4. QED
    BY <2>3, PostedKept
<1>3. QED
  BY <1>1, <1>2

\* No loan leaves APPROVED without a posted disbursement.
THEOREM NoLoanWithoutPosting == Spec => []DisbursedIsPosted
<1>1. Init => DisbursedIsPosted
  BY DEF Init, DisbursedIsPosted
<1>2. QED
  BY <1>1, RequestsCorrect, DisbursedIsPostedStep, PTL DEF Spec
-----------------------------------------------------------------------------
\* Only the insert of a ledger call that a service awaits adds an event.
LEMMA EventsWriter ==
    ASSUME TypeOK, [Next]_vars, NEW e \in LP!Ids(events)', e \notin LP!Ids(events)
    PROVE  /\ e \in Request /\ LedgerStep(e) /\ Ledger!Insert(e)
           /\ events'[e] = Ledger!PostedRow(ledgerCommand[e])
<1>1. events \in [Request -> LP!EventRow(Request) \cup {NoEvent}]
  BY SameType DEF TypeOK, LP!TypeOK
<1>2. ASSUME NEW r \in Request, events' # events, Arrive(r) \/ Advance(r) \/ Crash(r)
      PROVE  LedgerStep(r) /\ Ledger!Insert(r)
  <2>1. CASE LedgerStep(r)
    BY <1>2, <2>1 DEF LedgerStep, Ledger!Lookup, Ledger!Audit
  <2>2. CASE Crash(r)
    BY <1>2, <2>2 DEF Crash, Ledger!Crash, ledgerVars
  <2>3. CASE Disbursement(r) \/ LookupRepayment(r)
    BY <1>2, <2>3 DEF Disbursement, ReadForDisbursement, Activate, LookupRepayment,
       Ledger!StartPost, ledgerVars
  <2>4. CASE \/ Arrive(r) \/ TurnedAway(r) \/ LoanRefused(r) \/ LedgerRefused(r)
             \/ ReadForRepayment(r) \/ CheckEvidence(r) \/ InsertRepayment(r)
             \/ ReadSchedule(r) \/ UpdateItem(r) \/ CountUnpaid(r) \/ Complete(r)
             \/ ReadForException(r) \/ InsertException(r) \/ WaiveItem(r)
             \/ Rescheduling(r) \/ AppendAudit(r)
    BY <1>2, <2>4 DEF Arrive, TurnedAway, LoanRefused, LedgerRefused, ReadForRepayment,
       CheckEvidence, InsertRepayment, ReadSchedule, UpdateItem, CountUnpaid, Complete,
       ReadForException, InsertException, WaiveItem, Rescheduling, Supersede, CreateItems,
       MarkRescheduled, AppendAudit, ledgerVars
  <2>5. QED
    BY <1>2, <2>1, <2>2, <2>3, <2>4 DEF Advance, Repayment
<1>3. events' # events
  BY DEF LP!Ids
<1>4. PICK r \in Request : LedgerStep(r) /\ Ledger!Insert(r)
  BY <1>2, <1>3 DEF Next, vars, ledgerVars
<1>5. events' = [events EXCEPT ![r] = Ledger!PostedRow(ledgerCommand[r])]
  BY <1>3, <1>4 DEF Ledger!Insert
<1>6. e = r
  BY <1>1, <1>5 DEF LP!Ids
<1>7. QED
  BY <1>1, <1>4, <1>5, <1>6

\* What a request does at its posting step, and that a crashed one does nothing.
LEMMA PostingSteps ==
    ASSUME NEW r \in Request, pc[r] = "posting", command[r].op = "repay",
           ledgerPc[r] # "refused", Advance(r) \/ Crash(r)
    PROVE  LedgerStep(r) \/ InsertRepayment(r) \/ Crash(r)
BY DEF Advance, TurnedAway, LoanRefused, LedgerRefused, Disbursement, ReadForDisbursement,
   Activate, Repayment, ReadForRepayment, CheckEvidence, LookupRepayment, ReadSchedule,
   UpdateItem, CountUnpaid, Complete, ReadForException, InsertException, WaiveItem,
   Rescheduling, Supersede, CreateItems, MarkRescheduled, AppendAudit

LEMMA PosterActs ==
    ASSUME NEW r \in Request, pc[r] \in {"posting", "crashed"},
           Arrive(r) \/ Advance(r) \/ Crash(r)
    PROVE  pc[r] = "posting" /\ (Advance(r) \/ Crash(r)) /\ UNCHANGED command
<1>1. pc[r] = "posting" /\ (Advance(r) \/ Crash(r))
  BY DEF Arrive, Advance, TurnedAway, LoanRefused, LedgerStep, LedgerRefused, Disbursement,
     ReadForDisbursement, Activate, Repayment, ReadForRepayment, CheckEvidence,
     LookupRepayment, InsertRepayment, ReadSchedule, UpdateItem, CountUnpaid, Complete,
     ReadForException, InsertException, WaiveItem, Rescheduling, Supersede, CreateItems,
     MarkRescheduled, AppendAudit, Crash, InFlight, Step, RepayStep, WaiveStep, RescheduleStep
<1>2. UNCHANGED command
  BY <1>1 DEF Advance, TurnedAway, LoanRefused, LedgerStep, LedgerRefused, Disbursement,
     ReadForDisbursement, Activate, Repayment, ReadForRepayment, CheckEvidence,
     LookupRepayment, InsertRepayment, ReadSchedule, UpdateItem, CountUnpaid, Complete,
     ReadForException, InsertException, WaiveItem, Rescheduling, Supersede, CreateItems,
     MarkRescheduled, AppendAudit, Crash
<1>3. QED
  BY <1>1, <1>2

\* Who posted an event under a repayment's key is still at it, or died, unless
\* the repayment is there.
Poster(e, k) ==
    /\ e \in Request /\ pc[e] \in {"posting", "crashed"}
    /\ command[e].op = "repay" /\ command[e].key = k
    /\ pc[e] = "posting" => ledgerPc[e] \in {"audit", "done"}

PosterInv ==
    \A e \in LP!Ids(events), k \in RepaymentKey :
        events[e].key = LedgerRepaymentKey(k) => WithKey(k) # {} \/ Poster(e, k)

LEMMA PosterStep ==
    TypeOK /\ HandlerInv /\ LedgerInv /\ PosterInv /\ [Next]_vars => PosterInv'
<1> SUFFICES ASSUME TypeOK, HandlerInv, LedgerInv, PosterInv, [Next]_vars,
                    NEW e \in LP!Ids(events)', NEW k \in RepaymentKey,
                    events'[e].key = LedgerRepaymentKey(k)
             PROVE  WithKey(k)' # {} \/ Poster(e, k)'
  BY DEF PosterInv, LedgerRepaymentKey
<1>1. WithKey(k) # {} => WithKey(k)' # {}
  BY RepaymentsKept DEF WithKey
<1>2. ASSUME e \notin LP!Ids(events) PROVE Poster(e, k)'
  <2>1. /\ e \in Request /\ LedgerStep(e) /\ Ledger!Insert(e)
        /\ events'[e] = Ledger!PostedRow(ledgerCommand[e])
    BY <1>2, EventsWriter
  <2>2. pc[e] = "posting" /\ UNCHANGED <<pc, command>>
    BY <2>1 DEF LedgerStep
  <2>3. ledgerCommand[e].key = LedgerRepaymentKey(k)
    BY <2>1 DEF Ledger!PostedRow
  <2>4. command[e].op = "repay" /\ command[e].key = k
    <3>1. /\ command[e].op \in {"disburse", "repay"}
          /\ ledgerCommand[e].key = IF command[e].op = "disburse"
                                    THEN DisbursementKey(LoanOf(e))
                                    ELSE LedgerRepaymentKey(command[e].key)
      BY <2>1, <2>2 DEF HandlerInv, Handler
    <3>2. \A l : DisbursementKey(l) # LedgerRepaymentKey(k)
      BY DEF DisbursementKey, LedgerRepaymentKey
    <3>3. \A x : LedgerRepaymentKey(x) = LedgerRepaymentKey(k) => x = k
      BY DEF LedgerRepaymentKey
    <3>4. QED
      BY <2>3, <3>1, <3>2, <3>3
  <2>5. ledgerPc'[e] = "audit"
    <3>1. ledgerPc \in [Request -> {"idle"} \cup LP!Step \cup LP!Finished]
      BY DEF LedgerInv, LP!TypeOK
    <3>2. events[e] = NoEvent /\ events'[e] # NoEvent
      BY <1>2, <2>1 DEF LP!Ids, LedgerInv, LP!TypeOK
    <3>3. QED
      BY <2>1, <3>1, <3>2 DEF Ledger!Insert, Ledger!Goto
  <2>6. QED
    BY <2>1, <2>2, <2>4, <2>5 DEF Poster
<1>3. ASSUME e \in LP!Ids(events), WithKey(k) = {}
      PROVE  WithKey(k)' # {} \/ Poster(e, k)'
  <2>1. Poster(e, k)
    BY <1>3, IsLedgerStep, EventsKept DEF PosterInv
  <2>2. CASE UNCHANGED vars
    BY <2>1, <2>2 DEF Poster, vars, ledgerVars
  <2>3. ASSUME NEW r \in Request, r # e, Arrive(r) \/ Advance(r) \/ Crash(r)
        PROVE  Poster(e, k)'
    BY <2>1, <2>3, OthersStay DEF Poster, LedgerInv
  <2>4. ASSUME Arrive(e) \/ Advance(e) \/ Crash(e)
        PROVE  WithKey(k)' # {} \/ Poster(e, k)'
    <3>1. pc[e] = "posting" /\ (Advance(e) \/ Crash(e)) /\ UNCHANGED command
      BY <2>1, <2>4, PosterActs DEF Poster
    <3>2. CASE LedgerStep(e)
      <4>1. ledgerPc[e] \in {"audit", "done"} /\ UNCHANGED <<pc, command>>
        BY <2>1, <3>1, <3>2 DEF Poster, LedgerStep
      <4>2. ledgerPc \in [Request -> {"idle"} \cup LP!Step \cup LP!Finished]
        BY DEF LedgerInv, LP!TypeOK
      <4>3. ledgerPc'[e] = "done"
        BY <2>1, <3>2, <4>1, <4>2 DEF Poster, LedgerStep, Ledger!Lookup, Ledger!Insert,
           Ledger!Audit, Ledger!Return, Ledger!Goto
      <4>4. QED
        BY <2>1, <4>1, <4>3 DEF Poster
    <3>3. CASE Crash(e)
      BY <2>1, <3>1, <3>3 DEF Poster, Crash, Leave, Goto, TypeOK
    <3>4. CASE InsertRepayment(e)
      <4>1. ~KeyTaken(e)
        BY <1>3, <2>1 DEF KeyTaken, Poster
      <4>2. repayments' = [repayments EXCEPT ![e] = NewRepayment(e)]
        BY <3>4, <4>1 DEF InsertRepayment
      <4>3. repayments'[e] = NewRepayment(e) /\ NewRepayment(e).key = k
        BY <2>1, <4>2 DEF Poster, TypeOK, NewRepayment
      <4>4. NewRepayment(e) # NoRepayment
        BY <2>1, <3>4, NewRepaymentType, LoanServicingAssumption DEF Poster
      <4>5. e \in WithKey(k)'
        BY <2>1, <4>3, <4>4 DEF WithKey, Stored, Poster
      <4>6. QED
        BY <4>5
    <3>5. QED
      BY <2>1, <3>1, <3>2, <3>3, <3>4, PostingSteps DEF Poster
  <2>5. QED
    BY <2>2, <2>3, <2>4 DEF Next
<1>4. QED
  BY <1>1, <1>2, <1>3

\* Money that the ledger took in under a repayment's key gets its row, unless
\* the request for it is still on its way or died.
THEOREM PostedRepaymentsAreRecorded == Spec => []PostedIsRecorded
<1>1. Init => PosterInv
  BY DEF Init, Ledger!Init, PosterInv, LP!Ids
<1>2. PosterInv => PostedIsRecorded
  <2>1. ASSUME PosterInv, NEW k \in RepaymentKey, NEW e \in Posted(LedgerRepaymentKey(k))
        PROVE  WithKey(k) # {} \/ Poster(e, k)
    BY <2>1, PostedDef DEF PosterInv
  <2>2. QED
    BY <2>1 DEF PostedIsRecorded, Poster
<1>3. QED
  BY <1>1, <1>2, RequestsCorrect, PosterStep, PTL DEF Spec
-----------------------------------------------------------------------------
\* The sequence of partial allocations exists, so that Allocation is its last.
LEMMA LeastNat ==
    ASSUME NEW S, S \subseteq Nat, S # {}
    PROVE  \E x \in S : \A y \in S : x <= y
<1> DEFINE R == OpToRel(<, Nat)
<1>1. IsWellFoundedOn(R, Nat)
  BY NatLessThanWellFounded
<1>2. \A x, y \in Nat : x < y => <<x, y>> \in R
  BY DEF OpToRel
<1> HIDE DEF R
<1>3. PICK x \in S : \A y \in S : ~(<<y, x>> \in R)
  BY <1>1, WFMin
<1>4. \A y \in S : x \in Nat /\ y \in Nat /\ ~(y < x)
  BY <1>2, <1>3
<1>5. \A y \in S : x <= y
  BY <1>4
<1>6. QED
  BY <1>3, <1>5

Taken(taken, m, amount, items) ==
    taken = [n \in 0..m |->
                IF n = 0 THEN Nothing
                ELSE IF n \in Payable(items) THEN Take(taken[n - 1], items[n], amount)
                ELSE taken[n - 1]]

LEMMA TakenExists ==
    ASSUME NEW amount, NEW items, NEW m \in Nat
    PROVE  \E taken : Taken(taken, m, amount, items)
<1> DEFINE T == {k \in Nat : ~\E taken : Taken(taken, k, amount, items)}
           Longer(old, n) == IF n \in Payable(items) THEN Take(old, items[n], amount) ELSE old
<1> SUFFICES ASSUME T # {} PROVE FALSE
  OBVIOUS
<1>1. PICK k \in T : \A j \in T : k <= j
  BY LeastNat
<1>2. CASE k = 0
  <2>1. Taken([n \in 0..0 |-> Nothing], 0, amount, items)
    BY DEF Taken
  <2>2. QED
    BY <1>1, <1>2, <2>1
<1>3. CASE k # 0
  <2>1. k - 1 \in Nat /\ k - 1 \notin T
    BY <1>1, <1>3
  <2>2. PICK old : Taken(old, k - 1, amount, items)
    BY <2>1
  <2> DEFINE new == [n \in 0..k |-> IF n = k THEN Longer(old[k - 1], k) ELSE old[n]]
  <2> HIDE DEF Longer
  <2>3. \A n \in 0..(k - 1) : old[n] = IF n = 0 THEN Nothing ELSE Longer(old[n - 1], n)
    BY <2>2 DEF Taken, Longer
  <2>4. ASSUME NEW n \in 0..k
        PROVE  new[n] = IF n = 0 THEN Nothing ELSE Longer(new[n - 1], n)
    <3>1. CASE n = k
      <4>1. k - 1 \in 0..k /\ k - 1 # k /\ k \in 0..k
        BY <2>1
      <4>2. new[k - 1] = old[k - 1] /\ new[k] = Longer(old[k - 1], k)
        BY <4>1
      <4>3. QED
        BY <1>3, <3>1, <4>2
    <3>2. CASE n # k
      <4>1. n \in 0..(k - 1) /\ new[n] = old[n]
        BY <3>2, <1>1
      <4>2. n # 0 => n - 1 \in 0..k /\ n - 1 # k /\ new[n - 1] = old[n - 1]
        BY <1>1, <3>2
      <4>3. QED
        BY <2>3, <4>1, <4>2
    <3>3. QED
      BY <3>1, <3>2
  <2>5. new = [n \in 0..k |-> IF n = 0 THEN Nothing ELSE Longer(new[n - 1], n)]
    <3>1. new = [n \in 0..k |-> new[n]]
      OBVIOUS
    <3> HIDE DEF new
    <3>2. QED
      BY <2>4, <3>1
  <2> HIDE DEF new
  <2>6. Taken(new, k, amount, items)
    BY <2>5 DEF Taken, Longer
  <2>7. QED
    BY <1>1, <2>6
<1>4. QED
  BY <1>2, <1>3

LEMMA AllocationTaken ==
    ASSUME NEW amount, NEW items, Len(items) \in Nat
    PROVE  \E taken : /\ Taken(taken, Len(items), amount, items)
                      /\ Allocation(amount, items) = taken[Len(items)]
<1> DEFINE m == Len(items)
           Is(taken) == Taken(taken, m, amount, items)
           last == CHOOSE taken : Is(taken)
<1>1. \E taken : Is(taken)
  BY TakenExists
<1>2. Is(last)
  BY <1>1
<1>3. Allocation(amount, items) = last[m]
  BY DEF Allocation, Taken
<1>4. QED
  BY <1>2, <1>3

\* With nothing that can be repaid, nothing is allocated.
LEMMA NothingAllocated ==
    ASSUME NEW amount, NEW items, Len(items) \in Nat, Payable(items) = {}
    PROVE  Allocation(amount, items) = Nothing
<1> DEFINE m == Len(items)
<1>1. PICK taken : Taken(taken, m, amount, items) /\ Allocation(amount, items) = taken[m]
  BY AllocationTaken
<1>2. m \in Nat
  OBVIOUS
<1> HIDE DEF m
<1>3. \A n \in 0..m : taken[n] = IF n = 0 THEN Nothing ELSE taken[n - 1]
  BY <1>1 DEF Taken
<1> DEFINE T == {k \in 0..m : taken[k] # Nothing}
<1>4. ASSUME T # {} PROVE FALSE
  <2>1. T \subseteq Nat
    OBVIOUS
  <2>2. PICK k \in T : \A j \in T : k <= j
    BY <1>4, <2>1, LeastNat
  <2>3. k # 0
    BY <1>3, <2>2
  <2>4. k - 1 \in 0..m /\ k - 1 \notin T
    BY <1>2, <2>2, <2>3
  <2>5. QED
    BY <1>3, <2>2, <2>3, <2>4
<1>5. QED
  BY <1>1, <1>2, <1>4
-----------------------------------------------------------------------------
\* What a request that is served alone found stays so until it ends.
Alone == \A q, r \in InFlight : q = r

Found(r) ==
    /\ pc[r] \in Step \ {"start", "audit"} => state[LoanOf(r)] = StateWanted(r)
    /\ pc[r] \in {"evidence", "lookup"} =>
          command[r].amount > 0 /\ frame[r].items = schedule[LoanOf(r)]
    /\ \/ pc[r] = "posting" /\ command[r].op = "repay"
       \/ pc[r] \in {"reading", "updating", "counting", "completing"}
       => Active(schedule[LoanOf(r)]) # {}
    /\ pc[r] = "completing" => AllPaid(LoanOf(r))

SerialInv == Alone /\ (\A r \in Request : Found(r)) /\ CompletedIsPaid

\* Nobody arrives while a request is being served.
LEMMA ArrivesAlone ==
    ASSUME MaxInFlight = 1, Alone, NEW r \in Request, Arrive(r)
    PROVE  InFlight = {}
<1>1. ASSUME NEW q \in InFlight PROVE FALSE
  <2>1. InFlight = {q}
    BY <1>1 DEF Alone
  <2>2. Cardinality(InFlight) = 1
    BY <2>1, FS_Singleton
  <2>3. QED
    BY <2>2 DEF Arrive
<1>2. QED
  BY <1>1

\* Whoever does a step after its arrival is being served.
LEMMA ActsInFlight ==
    ASSUME NEW r \in Request, Advance(r) \/ Crash(r)
    PROVE  r \in InFlight
BY DEF Advance, TurnedAway, LoanRefused, LedgerStep, LedgerRefused, Disbursement,
   ReadForDisbursement, Activate, Repayment, ReadForRepayment, CheckEvidence, LookupRepayment,
   InsertRepayment, ReadSchedule, UpdateItem, CountUnpaid, Complete, ReadForException,
   InsertException, WaiveItem, Rescheduling, Supersede, CreateItems, MarkRescheduled,
   AppendAudit, Crash, InFlight, Step, RepayStep, WaiveStep, RescheduleStep

\* The others are not being served, before and after.
LEMMA OthersIdle ==
    ASSUME MaxInFlight = 1, TypeOK, LedgerInv, Alone,
           NEW r \in Request, Arrive(r) \/ Advance(r) \/ Crash(r), NEW q \in Request, q # r
    PROVE  pc[q] \notin Step /\ pc'[q] \notin Step
<1>1. pc'[q] = pc[q]
  BY OthersStay DEF LedgerInv
<1>2. q \notin InFlight
  BY ArrivesAlone, ActsInFlight DEF Alone
<1>3. QED
  BY <1>1, <1>2 DEF InFlight

LEMMA AloneStep ==
    ASSUME MaxInFlight = 1, TypeOK, LedgerInv, Alone, [Next]_vars
    PROVE  Alone'
<1>1. CASE UNCHANGED vars
  BY <1>1 DEF vars, Alone, InFlight
<1>2. ASSUME NEW r \in Request, Arrive(r) \/ Advance(r) \/ Crash(r) PROVE Alone'
  <2>1. ASSUME NEW q \in Request, q # r PROVE q \notin InFlight'
    BY <1>2, <2>1, OthersIdle DEF InFlight
  <2>2. QED
    BY <2>1 DEF Alone, InFlight
<1>3. QED
  BY <1>1, <1>2 DEF Next

\* Which rows are active does not depend on what is paid on them.
LEMMA WriteKeepsActive ==
    ASSUME NEW l \in Loan, schedule \in [Loan -> Seq(ItemRow)],
           NEW n \in DOMAIN schedule[l], NEW columns, WriteItem(l, n, columns)
    PROVE  Active(schedule'[l]) = Active(schedule[l])
<1> DEFINE row == [schedule[l][n] EXCEPT !.paid = columns.paid, !.status = columns.status]
           rows == [schedule[l] EXCEPT ![n] = row]
<1>1. schedule[l] \in Seq(ItemRow) /\ schedule[l][n] \in ItemRow
  OBVIOUS
<1>2. schedule'[l] = rows
  BY DEF WriteItem
<1>3. row.superseded = schedule[l][n].superseded
  BY <1>1 DEF ItemRow
<1> HIDE DEF row
<1>4. DOMAIN rows = DOMAIN schedule[l]
  OBVIOUS
<1>5. \A k \in DOMAIN rows : rows[k].superseded = schedule[l][k].superseded
  BY <1>3
<1>6. QED
  BY <1>2, <1>4, <1>5 DEF Active

\* A repayment is only posted when some of the rows that were read can be
\* repaid.
LEMMA PostedHasRows ==
    ASSUME NEW r \in Request, FullyAllocated(r), frame[r].items \in Seq(ItemRow),
           command[r].amount \in Int, command[r].amount > 0
    PROVE  Active(frame[r].items) # {}
<1>1. CASE Payable(frame[r].items) = {}
  <2>1. AllocationOf(r) = Nothing
    BY <1>1, NothingAllocated DEF AllocationOf
  <2>2. Total(Nothing) = 0
    BY DEF Total, Nothing, Part
  <2>3. QED
    BY <2>1, <2>2 DEF FullyAllocated, Split
<1>2. QED
  BY <1>1 DEF Payable
-----------------------------------------------------------------------------
\* Only rows of the own loan are written, while it is ACTIVE, and only a
\* reschedule changes which of them are active.
LEMMA SerialSchedule ==
    ASSUME TypeOK, HandlerInv, SerialInv, NEW r \in Request,
           \/ UpdateItem(r) \/ WaiveItem(r) \/ Supersede(r) \/ CreateItems(r)
    PROVE  /\ \A l \in Loan : l # LoanOf(r) => schedule'[l] = schedule[l]
           /\ LoanOf(r) \in Loan /\ state[LoanOf(r)] = "ACTIVE" /\ UNCHANGED <<state, command>>
           /\ UpdateItem(r) \/ WaiveItem(r) =>
                 Active(schedule'[LoanOf(r)]) = Active(schedule[LoanOf(r)])
<1> USE DEF Step, RepayStep, WaiveStep, RescheduleStep
<1>1. pc[r] \in Step \ {"start", "audit"} /\ command[r].op \in {"repay", "waive", "reschedule"}
  BY OwnCommand DEF UpdateItem, WaiveItem, Supersede, CreateItems
<1>2. LoanOf(r) \in Loan /\ state[LoanOf(r)] = "ACTIVE"
  BY <1>1, OwnCommand DEF SerialInv, Found, StateWanted
<1>3. FrameInv(r) /\ schedule \in [Loan -> Seq(ItemRow)]
  BY DEF HandlerInv, TypeOK
<1>4. UNCHANGED <<state, command>>
  BY DEF UpdateItem, WaiveItem, Supersede, CreateItems
<1>5. ASSUME NEW n \in DOMAIN frame[r].items, NEW columns, WriteItem(LoanOf(r), n, columns)
      PROVE  /\ \A l \in Loan : l # LoanOf(r) => schedule'[l] = schedule[l]
             /\ Active(schedule'[LoanOf(r)]) = Active(schedule[LoanOf(r)])
  <2>1. n \in DOMAIN schedule[LoanOf(r)]
    BY <1>3 DEF FrameInv
  <2>2. Active(schedule'[LoanOf(r)]) = Active(schedule[LoanOf(r)])
    BY <1>2, <1>3, <1>5, <2>1, WriteKeepsActive
  <2>3. QED
    BY <1>3, <1>5, <2>2 DEF WriteItem
<1>6. CASE UpdateItem(r)
  <2>1. frame[r].todo \subseteq DOMAIN frame[r].items
    BY <1>3 DEF FrameInv
  <2>2. \/ UNCHANGED schedule
        \/ \E n \in frame[r].todo :
              WriteItem(LoanOf(r), n, Repaid(frame[r].items[n], frame[r].left))
    BY <1>6 DEF UpdateItem
  <2>3. /\ \A l \in Loan : l # LoanOf(r) => schedule'[l] = schedule[l]
        /\ Active(schedule'[LoanOf(r)]) = Active(schedule[LoanOf(r)])
    BY <1>5, <2>1, <2>2
  <2>4. QED
    BY <1>2, <1>4, <2>3
<1>7. CASE WaiveItem(r)
  <2>1. \/ UNCHANGED schedule
        \/ \E columns : /\ command[r].item \in DOMAIN frame[r].items
                        /\ WriteItem(LoanOf(r), command[r].item, columns)
    BY <1>7 DEF WaiveItem, WaivesItem, Active
  <2>2. /\ \A l \in Loan : l # LoanOf(r) => schedule'[l] = schedule[l]
        /\ Active(schedule'[LoanOf(r)]) = Active(schedule[LoanOf(r)])
    BY <1>5, <2>1
  <2>3. QED
    BY <1>2, <1>4, <2>2
<1>8. CASE Supersede(r) \/ CreateItems(r)
  <2>1. \A l \in Loan : l # LoanOf(r) => schedule'[l] = schedule[l]
    BY <1>3, <1>8 DEF Supersede, CreateItems
  <2>2. ~UpdateItem(r) /\ ~WaiveItem(r)
    BY <1>8 DEF Supersede, CreateItems, UpdateItem, WaiveItem
  <2>3. QED
    BY <1>2, <1>4, <2>1, <2>2
<1>9. QED
  BY <1>6, <1>7, <1>8

\* How the state of a loan moves when requests are served one at a time.
Moves(l) ==
    \/ state'[l] = state[l]
    \/ state[l] = "APPROVED" /\ state'[l] = "ACTIVE"
    \/ /\ state[l] = "ACTIVE" /\ state'[l] \in {"COMPLETED", "RESCHEDULED"}
       /\ state'[l] = "COMPLETED" => /\ UNCHANGED schedule /\ Active(schedule[l]) # {}
                                     /\ AllPaid(l)

LEMMA SerialMoves ==
    ASSUME TypeOK, HandlerInv, SerialInv, [Next]_vars, NEW l \in Loan
    PROVE  Moves(l)
<1>1. CASE UNCHANGED state
  BY <1>1 DEF Moves
<1>2. CASE state' # state
  <2> USE DEF Step, RepayStep, WaiveStep, RescheduleStep
  <2>1. PICK r \in Request : Activate(r) \/ Complete(r) \/ MarkRescheduled(r)
    BY <1>2, StateWriters
  <2>2. pc[r] \in Step \ {"start", "audit"} /\ LoanOf(r) \in Loan
    BY <2>1, OwnCommand DEF Activate, Complete, MarkRescheduled
  <2>3. state[LoanOf(r)] = StateWanted(r) /\ Found(r)
    BY <2>2 DEF SerialInv, Found
  <2>4. CASE l # LoanOf(r)
    <3>1. state'[l] = state[l]
      BY <2>1, <2>4 DEF Activate, Complete, MarkRescheduled, TypeOK
    <3>2. QED
      BY <3>1 DEF Moves
  <2>5. CASE l = LoanOf(r) /\ Activate(r)
    <3>1. state[l] = "APPROVED" /\ state'[l] = "ACTIVE"
      BY <2>3, <2>5 DEF Activate, StateWanted, TypeOK
    <3>2. QED
      BY <3>1 DEF Moves
  <2>6. CASE l = LoanOf(r) /\ Complete(r)
    <3>1. pc[r] = "completing" /\ command[r].op = "repay"
      BY <2>2, <2>6, OwnCommand DEF Complete
    <3>2. /\ state[l] = "ACTIVE" /\ state'[l] = "COMPLETED" /\ UNCHANGED schedule
          /\ Active(schedule[l]) # {} /\ AllPaid(l)
      BY <2>3, <2>6, <3>1 DEF Found, Complete, StateWanted, TypeOK
    <3>3. QED
      BY <3>2 DEF Moves
  <2>7. CASE l = LoanOf(r) /\ MarkRescheduled(r)
    <3>1. pc[r] = "marking" /\ command[r].op = "reschedule"
      BY <2>2, <2>7, OwnCommand DEF MarkRescheduled
    <3>2. state[l] = "ACTIVE" /\ state'[l] = "RESCHEDULED"
      BY <2>3, <2>7, <3>1 DEF MarkRescheduled, StateWanted, TypeOK
    <3>3. QED
      BY <3>2 DEF Moves
  <2>8. QED
    BY <2>1, <2>4, <2>5, <2>6, <2>7
<1>3. QED
  BY <1>1, <1>2

\* Who writes rows.
LEMMA ScheduleWriters ==
    ASSUME [Next]_vars, schedule' # schedule
    PROVE  \E r \in Request : UpdateItem(r) \/ WaiveItem(r) \/ Supersede(r) \/ CreateItems(r)
<1>1. ASSUME NEW r \in Request, Arrive(r) \/ Advance(r) \/ Crash(r)
      PROVE  UpdateItem(r) \/ WaiveItem(r) \/ Supersede(r) \/ CreateItems(r)
  BY <1>1 DEF Arrive, Advance, TurnedAway, LoanRefused, LedgerStep, LedgerRefused, Disbursement,
     ReadForDisbursement, Activate, Repayment, ReadForRepayment, CheckEvidence, LookupRepayment,
     InsertRepayment, ReadSchedule, CountUnpaid, Complete, ReadForException, InsertException,
     Rescheduling, MarkRescheduled, AppendAudit, Crash, tables
<1>2. QED
  BY <1>1 DEF Next, vars, tables

LEMMA CompletedStep ==
    ASSUME TypeOK, HandlerInv, SerialInv, [Next]_vars
    PROVE  CompletedIsPaid'
<1> SUFFICES ASSUME NEW l \in Loan, state'[l] = "COMPLETED"
             PROVE  /\ Active(schedule'[l]) # {}
                    /\ \A n \in Active(schedule'[l]) : schedule'[l][n].status = "PAID"
  BY DEF CompletedIsPaid, Active
<1>1. CASE state[l] = "COMPLETED"
  <2>1. schedule'[l] = schedule[l]
    BY <1>1, ScheduleWriters, SerialSchedule
  <2>2. QED
    BY <1>1, <2>1 DEF SerialInv, CompletedIsPaid
<1>2. CASE state[l] # "COMPLETED"
  <2>1. UNCHANGED schedule /\ Active(schedule[l]) # {} /\ AllPaid(l)
    BY <1>2, SerialMoves DEF Moves
  <2>2. QED
    BY <2>1 DEF AllPaid
<1>3. QED
  BY <1>1, <1>2
-----------------------------------------------------------------------------
\* A request that is no longer served has found nothing.
LEMMA LeftFound ==
    ASSUME TypeOK, NEW r \in Request, NEW how \in Finished \cup {"start", "audit"}, Goto(r, how)
    PROVE  Found(r)'
<1>1. pc'[r] = how
  BY DEF Goto, TypeOK
<1>2. how \notin Step \ {"start", "audit"}
  BY DEF Finished, Refusal, Step, RepayStep, WaiveStep, RescheduleStep
<1>3. pc'[r] \notin {"evidence", "lookup", "posting", "reading", "updating", "counting", "completing"}
  BY <1>1, <1>2 DEF Step, RepayStep
<1>4. QED
  BY <1>1, <1>2, <1>3 DEF Found

\* A request that goes on with the same loan, and the loan with it.
LEMMA StillFound ==
    ASSUME TypeOK, HandlerInv, SerialInv, NEW r \in Request, pc[r] \in Step,
           state[LoanOf(r)] = StateWanted(r), UNCHANGED <<state, command>>,
           pc'[r] \in {"evidence", "lookup"} =>
              command[r].amount > 0 /\ frame'[r].items = schedule'[LoanOf(r)],
           \/ pc'[r] = "posting" /\ command[r].op = "repay"
           \/ pc'[r] \in {"reading", "updating", "counting", "completing"}
           => Active(schedule'[LoanOf(r)]) # {},
           pc'[r] = "completing" => AllPaid(LoanOf(r))'
    PROVE  Found(r)'
<1>1. LoanOf(r)' = LoanOf(r) /\ StateWanted(r)' = StateWanted(r)
  BY DEF LoanOf, StateWanted
<1>2. state'[LoanOf(r)] = StateWanted(r)
  OBVIOUS
<1>3. QED
  BY <1>1, <1>2 DEF Found, AllPaid, Active

LEMMA FoundStep ==
    ASSUME TypeOK, HandlerInv, LedgerInv, InstalmentsAddUp, SerialInv, NEW r \in Request,
           Arrive(r) \/ Advance(r) \/ Crash(r)
    PROVE  Found(r)'
<1> USE DEF Step, RepayStep, WaiveStep, RescheduleStep
<1>1. Found(r) /\ FrameInv(r) /\ frame[r] \in Frame
  BY DEF SerialInv, HandlerInv, TypeOK
<1>2. ASSUME NEW how \in Finished \cup {"start", "audit"}, Goto(r, how) PROVE Found(r)'
  BY <1>2, LeftFound
<1>3. CASE Arrive(r) \/ TurnedAway(r) \/ LoanRefused(r) \/ LedgerRefused(r) \/ AppendAudit(r)
           \/ Crash(r) \/ Activate(r) \/ Complete(r) \/ MarkRescheduled(r) \/ WaiveItem(r)
  <2>1. \E how \in Finished \cup {"start", "audit"} : Goto(r, how)
    BY <1>3 DEF Arrive, TurnedAway, LoanRefused, LedgerRefused, AppendAudit, Crash, Activate,
       Complete, MarkRescheduled, WaiveItem, Leave, Finished, Refusal
  <2>2. QED
    BY <1>2, <2>1
<1>4. CASE LedgerStep(r)
  <2>1. pc[r] = "posting" /\ UNCHANGED <<tables, pc, command, frame>>
    BY <1>4 DEF LedgerStep
  <2>2. QED
    BY <1>1, <2>1, StillFound DEF tables, Found
<1>5. CASE ReadForDisbursement(r)
  <2>1. /\ pc[r] = "start" /\ command[r].op = "disburse" /\ Goto(r, "posting")
        /\ UNCHANGED <<tables, command, frame>> /\ state[LoanOf(r)] = StateWanted(r)
    BY <1>5 DEF ReadForDisbursement, ReadAsWanted
  <2>2. pc'[r] = "posting"
    BY <2>1 DEF Goto, TypeOK
  <2>3. QED
    BY <2>1, <2>2, StillFound DEF tables
<1>6. CASE ReadForRepayment(r)
  <2>1. CASE Leave(r, "refused")
    BY <1>2, <2>1 DEF Leave, Finished, Refusal
  <2>2. CASE ~Leave(r, "refused")
    <3>1. /\ pc[r] = "start" /\ command[r].op = "repay" /\ Goto(r, "evidence")
          /\ frame' = [frame EXCEPT ![r].items = schedule[LoanOf(r)]]
          /\ UNCHANGED <<tables, command>> /\ state[LoanOf(r)] = StateWanted(r)
          /\ command[r].amount > 0
      BY <1>6, <2>2 DEF ReadForRepayment, ReadAsWanted
    <3>2. pc'[r] = "evidence" /\ frame'[r].items = schedule[LoanOf(r)]
      BY <1>1, <3>1 DEF Goto, TypeOK, Frame
    <3>3. QED
      BY <3>1, <3>2, StillFound DEF tables
  <2>3. QED
    BY <2>1, <2>2
<1>7. CASE CheckEvidence(r)
  <2>1. CASE Leave(r, "refused")
    BY <1>2, <2>1 DEF Leave, Finished, Refusal
  <2>2. CASE ~Leave(r, "refused")
    <3>1. pc[r] = "evidence" /\ Goto(r, "lookup") /\ UNCHANGED <<tables, command, frame>>
      BY <1>7, <2>2 DEF CheckEvidence
    <3>2. pc'[r] = "lookup"
      BY <3>1 DEF Goto, TypeOK
    <3>3. QED
      BY <1>1, <3>1, <3>2, StillFound DEF tables, Found
  <2>3. QED
    BY <2>1, <2>2
<1>8. CASE LookupRepayment(r)
  <2>1. pc[r] = "lookup" /\ command[r].op = "repay" /\ UNCHANGED <<tables, command>>
    BY <1>8, OwnCommand DEF LookupRepayment
  <2>2. CASE \E how \in Finished : Leave(r, how)
    BY <1>2, <2>2 DEF Leave
  <2>3. CASE FullyAllocated(r) /\ Goto(r, "posting")
    <3>1. command[r].amount \in Int
      BY <2>1, OwnCommand, InstructionFacts DEF Repay
    <3>2. frame[r].items = schedule[LoanOf(r)] /\ command[r].amount > 0
      BY <1>1, <2>1 DEF Found
    <3>3. Active(frame[r].items) # {}
      BY <1>1, <2>3, <3>1, <3>2, PostedHasRows DEF Frame
    <3>4. pc'[r] = "posting"
      BY <2>3 DEF Goto, TypeOK
    <3>5. state[LoanOf(r)] = StateWanted(r)
      BY <1>1, <2>1 DEF Found
    <3>6. QED
      BY <2>1, <3>2, <3>3, <3>4, <3>5, StillFound DEF tables
  <2>4. QED
    BY <1>8, <2>2, <2>3 DEF LookupRepayment, Finished, Refusal
<1>9. CASE InsertRepayment(r) \/ ReadSchedule(r)
  <2>1. CASE Leave(r, "refused")
    BY <1>2, <2>1 DEF Leave, Finished, Refusal
  <2>2. CASE ~Leave(r, "refused")
    <3>1. /\ pc[r] \in {"posting", "reading"} /\ command[r].op = "repay"
          /\ Goto(r, "reading") \/ Goto(r, "updating")
          /\ UNCHANGED <<schedule, state, command>>
      BY <1>9, <2>2, OwnCommand DEF InsertRepayment, ReadSchedule, tables
    <3>2. pc'[r] \in {"reading", "updating"}
      BY <3>1 DEF Goto, TypeOK
    <3>3. Active(schedule[LoanOf(r)]) # {} /\ state[LoanOf(r)] = StateWanted(r)
      BY <1>1, <3>1 DEF Found
    <3>4. QED
      BY <3>1, <3>2, <3>3, StillFound
  <2>3. QED
    BY <2>1, <2>2
<1>10. CASE UpdateItem(r)
  <2>1. pc[r] = "updating" /\ pc'[r] \in {"updating", "counting"}
    BY <1>10 DEF UpdateItem, Goto, TypeOK
  <2>2. Active(schedule'[LoanOf(r)]) # {} /\ UNCHANGED <<state, command>>
    BY <1>1, <1>10, <2>1, SerialSchedule DEF Found
  <2>3. QED
    BY <1>1, <2>1, <2>2, StillFound DEF Found
<1>11. CASE CountUnpaid(r)
  <2>1. /\ pc[r] = "counting" /\ UNCHANGED <<tables, command, frame>>
        /\ Goto(r, IF AllPaid(LoanOf(r)) THEN "completing" ELSE "audit")
    BY <1>11 DEF CountUnpaid
  <2>2. pc'[r] = IF AllPaid(LoanOf(r)) THEN "completing" ELSE "audit"
    BY <2>1 DEF Goto, TypeOK
  <2>3. AllPaid(LoanOf(r)) => AllPaid(LoanOf(r))'
    BY <2>1 DEF AllPaid, Active, LoanOf, tables
  <2>4. QED
    BY <1>1, <2>1, <2>2, <2>3, StillFound DEF tables, Found
<1>12. CASE ReadForException(r)
  <2>1. CASE Leave(r, "refused")
    BY <1>2, <2>1 DEF Leave, Finished, Refusal
  <2>2. CASE ~Leave(r, "refused")
    <3>1. /\ pc[r] = "start"
          /\ Goto(r, "waiverEvent") \/ Goto(r, "rescheduleEvent")
          /\ UNCHANGED <<tables, command>> /\ state[LoanOf(r)] = StateWanted(r)
      BY <1>12, <2>2 DEF ReadForException, ReadAsWanted
    <3>2. pc'[r] \in {"waiverEvent", "rescheduleEvent"}
      BY <3>1 DEF Goto, TypeOK
    <3>3. QED
      BY <3>1, <3>2, StillFound DEF tables
  <2>3. QED
    BY <2>1, <2>2
<1>13. CASE InsertException(r) \/ Supersede(r) \/ CreateItems(r)
  <2>1. CASE Leave(r, "refused")
    BY <1>2, <2>1 DEF Leave, Finished, Refusal
  <2>2. CASE ~Leave(r, "refused")
    <3>1. /\ pc[r] \in {"waiverEvent", "rescheduleEvent", "superseding", "creating"}
          /\ \/ Goto(r, "waiving") \/ Goto(r, "superseding") \/ Goto(r, "creating")
             \/ Goto(r, "marking")
          /\ UNCHANGED <<state, command>>
      BY <1>13, <2>2 DEF InsertException, Supersede, CreateItems
    <3>2. pc'[r] \in {"waiving", "superseding", "creating", "marking"}
      BY <3>1 DEF Goto, TypeOK
    <3>3. pc[r] \in Step \ {"start", "audit"} /\ pc'[r] \notin {"evidence", "lookup", "posting",
             "reading", "updating", "counting", "completing"}
      BY <3>1, <3>2
    <3>4. state[LoanOf(r)] = StateWanted(r)
      BY <1>1, <3>3 DEF Found
    <3>5. QED
      BY <3>1, <3>3, <3>4, StillFound
  <2>3. QED
    BY <2>1, <2>2
<1>14. QED
  BY <1>3, <1>4, <1>5, <1>6, <1>7, <1>8, <1>9, <1>10, <1>11, <1>12, <1>13
     DEF Advance, Disbursement, Repayment, Rescheduling

LEMMA SerialStep ==
    MaxInFlight = 1 /\ IInv /\ SerialInv /\ [Next]_vars => SerialInv'
<1> SUFFICES ASSUME MaxInFlight = 1, IInv, SerialInv, [Next]_vars PROVE SerialInv'
  OBVIOUS
<1>1. Alone'
  BY AloneStep DEF IInv, SerialInv
<1>2. CompletedIsPaid'
  BY CompletedStep DEF IInv
<1>3. ASSUME NEW q \in Request PROVE Found(q)'
  <2>1. CASE UNCHANGED vars
    <3>1. Found(q) /\ UNCHANGED <<pc, state, command, frame, schedule>>
      BY <2>1 DEF vars, tables, SerialInv
    <3>2. QED
      BY <3>1 DEF Found, LoanOf, StateWanted, AllPaid, Active
  <2>2. ASSUME NEW r \in Request, Arrive(r) \/ Advance(r) \/ Crash(r) PROVE Found(q)'
    <3>1. CASE q = r
      BY <2>2, <3>1, FoundStep DEF IInv
    <3>2. CASE q # r
      <4>1. pc'[q] \notin Step
        BY <2>2, <3>2, OthersIdle DEF IInv, SerialInv
      <4>2. QED
        BY <4>1 DEF Found, Step, RepayStep
    <3>3. QED
      BY <3>1, <3>2
  <2>3. QED
    BY <2>1, <2>2 DEF Next
<1>4. QED
  BY <1>1, <1>2, <1>3 DEF SerialInv

LEMMA SerialInvariant ==
    ASSUME MaxInFlight = 1
    PROVE  Spec => [](IInv /\ SerialInv)
<1>1. Init => SerialInv
  BY DEF Init, SerialInv, Alone, InFlight, Found, CompletedIsPaid, Step, RepayStep, WaiveStep,
     RescheduleStep
<1>2. IInv /\ SerialInv /\ [Next]_vars => SerialInv'
  BY SerialStep
<1>3. QED
  BY <1>1, <1>2, InitInv, InvStep, PTL DEF Spec

\* When requests are served one at a time, also if some of them die, a loan is
\* completed only when it has instalments and all of them are paid.
THEOREM CompletedLoansArePaid ==
    ASSUME MaxInFlight = 1
    PROVE  Spec => []CompletedIsPaid
<1>1. SerialInv => CompletedIsPaid
  BY DEF SerialInv
<1>2. QED
  BY <1>1, SerialInvariant, PTL

\* When requests are served one at a time, no late write takes a loan back.
THEOREM LoansMoveForward ==
    ASSUME MaxInFlight = 1
    PROVE  Spec => LoanMovesForward
<1>1. IInv /\ SerialInv /\ [Next]_vars =>
        [\A l \in Loan :
            \/ state'[l] = state[l]
            \/ state[l] = "APPROVED" /\ state'[l] = "ACTIVE"
            \/ state[l] = "ACTIVE" /\ state'[l] \in {"COMPLETED", "RESCHEDULED"}]_state
  BY SerialMoves DEF IInv, Moves
<1>2. QED
  BY <1>1, SerialInvariant, PTL DEF Spec, LoanMovesForward
-----------------------------------------------------------------------------
\* The laws of sums that LedgerPostingProofs proves, under the names used here.
LEMMA SameSums ==
    /\ \A f, S : LP!SumFunctionOnSet(f, S) = SumFunctionOnSet(f, S)
    /\ \A S : LP!IsFiniteSet(S) <=> IsFiniteSet(S)
<1>1. \A f, S : LP!SumFunctionOnSet(f, S) = SumFunctionOnSet(f, S)
  BY DEF SumFunctionOnSet, LP!SumFunctionOnSet, FoldFunctionOnSet, LP!FoldFunctionOnSet,
     MapThenFoldSet, LP!MapThenFoldSet
<1>2. \A S : LP!IsFiniteSet(S) <=> IsFiniteSet(S)
  BY DEF LP!IsFiniteSet, IsFiniteSet
<1>3. QED
  BY <1>1, <1>2

LEMMA SumOverDomain ==
    ASSUME NEW f
    PROVE  /\ Ledger!SumFunction(f) = SumFunctionOnSet(f, DOMAIN f)
           /\ SumFunction(f) = SumFunctionOnSet(f, DOMAIN f)
BY DEF SumFunction, SumFunctionOnSet, Ledger!SumFunction, Ledger!SumFunctionOnSet,
   FoldFunctionOnSet, Ledger!FoldFunctionOnSet, MapThenFoldSet, Ledger!MapThenFoldSet

LEMMA SumEmpty == ASSUME NEW f PROVE SumFunctionOnSet(f, {}) = 0
BY LedgerAssumptions, LP!SumEmpty, SameSums

LEMMA SumType ==
    ASSUME NEW S, IsFiniteSet(S), NEW f, \A x \in S : f[x] \in Int
    PROVE  SumFunctionOnSet(f, S) \in Int
BY LedgerAssumptions, LP!SumType, SameSums

LEMMA SumRemove ==
    ASSUME NEW S, IsFiniteSet(S), NEW f, \A y \in S : f[y] \in Int, NEW x \in S
    PROVE  /\ SumFunctionOnSet(f, S) = f[x] + SumFunctionOnSet(f, S \ {x})
           /\ SumFunctionOnSet(f, S) \in Int /\ SumFunctionOnSet(f, S \ {x}) \in Int
BY LedgerAssumptions, LP!SumRemove, SameSums

LEMMA SumSame ==
    ASSUME NEW S, IsFiniteSet(S), NEW f, NEW g, \A x \in S : f[x] = g[x]
    PROVE  SumFunctionOnSet(f, S) = SumFunctionOnSet(g, S)
BY LedgerAssumptions, LP!SumSame, SameSums

LEMMA SumPoint ==
    ASSUME NEW S, IsFiniteSet(S), NEW f, NEW u \in S, f[u] \in Int, \A x \in S \ {u} : f[x] = 0
    PROVE  SumFunctionOnSet(f, S) = f[u]
BY LedgerAssumptions, LP!SumPoint, SameSums

LEMMA SumPart ==
    ASSUME NEW S, IsFiniteSet(S), NEW T \in SUBSET S, NEW f,
           \A x \in T : f[x] \in Int, \A x \in S \ T : f[x] = 0
    PROVE  SumFunctionOnSet(f, S) = SumFunctionOnSet(f, T)
BY LedgerAssumptions, LP!SumPart, SameSums

LEMMA SumPlus ==
    ASSUME NEW S, IsFiniteSet(S), NEW f, NEW g, NEW h,
           \A x \in S : f[x] \in Int /\ g[x] \in Int /\ h[x] = f[x] + g[x]
    PROVE  SumFunctionOnSet(h, S) = SumFunctionOnSet(f, S) + SumFunctionOnSet(g, S)
<1>1. LP!IsFiniteSet(S)
  BY SameSums
<1>2. LP!SumFunctionOnSet(h, S) = LP!SumFunctionOnSet(f, S) + LP!SumFunctionOnSet(g, S)
  BY <1>1, LedgerAssumptions, LP!SumPlus
<1>3. QED
  BY <1>2, SameSums

LEMMA SumAtMost ==
    ASSUME NEW S, IsFiniteSet(S), NEW f, NEW g,
           \A x \in S : f[x] \in Int /\ g[x] \in Int /\ f[x] <= g[x]
    PROVE  SumFunctionOnSet(f, S) <= SumFunctionOnSet(g, S)
<1>1. LP!IsFiniteSet(S)
  BY SameSums
<1>2. LP!SumFunctionOnSet(f, S) <= LP!SumFunctionOnSet(g, S)
  BY <1>1, LedgerAssumptions, LP!SumAtMost
<1>3. QED
  BY <1>2, SameSums

LEMMA SumRenamed ==
    \A S, T, h, f, g :
        LP!Renaming(S, T, h, f, g) => SumFunctionOnSet(f, S) = SumFunctionOnSet(g, T)
<1>1. \A S, T, h, f, g :
         LP!Renaming(S, T, h, f, g) =>
             LP!SumFunctionOnSet(f, S) = LP!SumFunctionOnSet(g, T)
  BY ONLY LedgerAssumptions, LP!SumRenamed
<1>2. QED
  BY <1>1, SameSums

\* One term changes.
LEMMA SumChange ==
    ASSUME NEW S, IsFiniteSet(S), NEW f, NEW g, NEW x \in S,
           \A y \in S : f[y] \in Int /\ g[y] \in Int, \A y \in S \ {x} : g[y] = f[y]
    PROVE  /\ SumFunctionOnSet(g, S) = SumFunctionOnSet(f, S) + g[x] - f[x]
           /\ SumFunctionOnSet(f, S) \in Int
<1>1. /\ SumFunctionOnSet(f, S) = f[x] + SumFunctionOnSet(f, S \ {x})
      /\ SumFunctionOnSet(f, S) \in Int /\ SumFunctionOnSet(f, S \ {x}) \in Int
  BY SumRemove
<1>2. SumFunctionOnSet(g, S) = g[x] + SumFunctionOnSet(g, S \ {x})
  BY SumRemove
<1>3. IsFiniteSet(S \ {x})
  BY FS_Subset
<1>4. SumFunctionOnSet(g, S \ {x}) = SumFunctionOnSet(f, S \ {x})
  BY <1>3, SumSame
<1>5. f[x] \in Int /\ g[x] \in Int
  OBVIOUS
<1>6. QED
  BY <1>1, <1>2, <1>4, <1>5

\* One term is added.
LEMMA SumAdd ==
    ASSUME NEW S, IsFiniteSet(S), NEW x, x \notin S, NEW f, NEW g,
           \A y \in S : f[y] \in Int /\ g[y] = f[y], g[x] \in Int
    PROVE  /\ SumFunctionOnSet(g, S \cup {x}) = SumFunctionOnSet(f, S) + g[x]
           /\ SumFunctionOnSet(f, S) \in Int
<1>1. IsFiniteSet(S \cup {x})
  BY FS_AddElement
<1>2. (S \cup {x}) \ {x} = S /\ \A y \in S \cup {x} : g[y] \in Int
  OBVIOUS
<1>3. SumFunctionOnSet(g, S \cup {x}) = g[x] + SumFunctionOnSet(g, S)
  BY <1>1, <1>2, SumRemove
<1>4. SumFunctionOnSet(g, S) = SumFunctionOnSet(f, S) /\ SumFunctionOnSet(f, S) \in Int
  BY SumSame, SumType
<1>5. QED
  BY <1>3, <1>4
-----------------------------------------------------------------------------
\* What the lines of a loan's events put on the accounts of LOAN_PRINCIPAL.
LinesOf(lines, m, b) == {j \in DOMAIN lines : lines[j].member = m /\ lines[j].bucket = b}
Amounts(lines) == [i \in DOMAIN lines |-> lines[i].amount]

LEMMA LineSumIs ==
    ASSUME NEW lines \in Seq(LedgerLine), NEW m, NEW b
    PROVE  /\ IsFiniteSet(LinesOf(lines, m, b))
           /\ \A i \in LinesOf(lines, m, b) : Amounts(lines)[i] \in Int
           /\ Ledger!LineSum(lines, m, b) = SumFunctionOnSet(Amounts(lines), LinesOf(lines, m, b))
           /\ Ledger!LineSum(lines, m, b) \in Int
<1> DEFINE D == LinesOf(lines, m, b)
           rows == [i \in D |-> lines[i]]
           said == [i \in D |-> lines[i].amount]
<1>1. IsFiniteSet(D)
  <2>1. IsFiniteSet(1..Len(lines)) /\ D \subseteq 1..Len(lines)
    BY FS_Interval DEF LinesOf
  <2>2. QED
    BY <2>1, FS_Subset
<1>2. \A i \in D : Amounts(lines)[i] = said[i] /\ Amounts(lines)[i] \in Int
  <2>1. \A i \in DOMAIN lines : lines[i] \in LedgerLine
    OBVIOUS
  <2>2. \A i \in DOMAIN lines : lines[i].amount \in Int
    BY <2>1 DEF LedgerLine
  <2>3. QED
    BY <2>2 DEF LinesOf, Amounts
<1>3. Ledger!LineSum(lines, m, b) = SumFunctionOnSet(said, D)
  <2>1. Ledger!LineSum(lines, m, b) = Ledger!SumFunction([i \in DOMAIN rows |-> rows[i].amount])
    BY DEF Ledger!LineSum, Ledger!SumOf, LinesOf
  <2>2. [i \in DOMAIN rows |-> rows[i].amount] = said
    OBVIOUS
  <2>3. Ledger!SumFunction(said) = SumFunctionOnSet(said, DOMAIN said)
    BY SumOverDomain
  <2>4. DOMAIN said = D
    OBVIOUS
  <2> HIDE DEF rows, said, D
  <2>5. QED
    BY <2>1, <2>2, <2>3, <2>4
<1> HIDE DEF D, said
<1>4. SumFunctionOnSet(said, D) = SumFunctionOnSet(Amounts(lines), D)
  BY <1>1, <1>2, SumSame
<1>5. SumFunctionOnSet(Amounts(lines), D) \in Int
  BY <1>1, <1>2, SumType
<1>6. QED
  BY <1>1, <1>2, <1>3, <1>4, <1>5 DEF D

\* Lines of which the first is m's and the only one of the bucket, the group's
\* apart, and lines of which none is.
LEMMA LineSumOfFirst ==
    ASSUME NEW lines \in Seq(LedgerLine), NEW m \in Member, NEW b,
           1 \in DOMAIN lines, lines[1].bucket = b,
           \A i \in DOMAIN lines \ {1} : lines[i].member = GroupAccount \/ lines[i].bucket # b
    PROVE  Ledger!LineSum(lines, m, b) = IF lines[1].member = m THEN lines[1].amount ELSE 0
<1>1. GroupAccount # m
  BY LedgerAssumptions
<1>2. LinesOf(lines, m, b) = IF lines[1].member = m THEN {1} ELSE {}
  BY <1>1 DEF LinesOf
<1>3. CASE lines[1].member = m
  <2>1. IsFiniteSet({1}) /\ Amounts(lines)[1] \in Int
    BY <1>2, <1>3, LineSumIs
  <2>2. SumFunctionOnSet(Amounts(lines), {1}) = Amounts(lines)[1]
    BY <2>1, SumPoint
  <2>3. Amounts(lines)[1] = lines[1].amount
    BY DEF Amounts
  <2>4. LinesOf(lines, m, b) = {1}
    BY <1>2, <1>3
  <2>5. Ledger!LineSum(lines, m, b) = SumFunctionOnSet(Amounts(lines), {1})
    BY <2>4, LineSumIs
  <2>6. QED
    BY <1>3, <2>2, <2>3, <2>5
<1>4. CASE lines[1].member # m
  BY <1>2, <1>4, LineSumIs, SumEmpty
<1>5. QED
  BY <1>3, <1>4

LEMMA LineSumOfNone ==
    ASSUME NEW lines \in Seq(LedgerLine), NEW m \in Member, NEW b,
           \A i \in DOMAIN lines : lines[i].member = GroupAccount \/ lines[i].bucket # b
    PROVE  Ledger!LineSum(lines, m, b) = 0
<1>1. GroupAccount # m
  BY LedgerAssumptions
<1>2. LinesOf(lines, m, b) = {}
  BY <1>1 DEF LinesOf
<1>3. QED
  BY <1>2, LineSumIs, SumEmpty

LEMMA DisbursementOnAccount ==
    ASSUME NEW r, command[r] \in Instruction, NEW m \in Member
    PROVE  Ledger!LineSum(DisburseCommand(r).lines, m, "LOAN_PRINCIPAL") =
               IF m = Contract[LoanOf(r)].borrower THEN Contract[LoanOf(r)].principal ELSE 0
<1> DEFINE borrower == Contract[LoanOf(r)].borrower
           amount == Contract[LoanOf(r)].principal
           lines == Pair("LOAN_PRINCIPAL", borrower, amount)
<1>1. borrower \in Member /\ amount \in Int
  BY InstructionFacts, LoanFacts DEF LoanOf
<1>2. lines \in Seq(LedgerLine)
  BY <1>1, PairType DEF FundBucket
<1>3. /\ 1 \in DOMAIN lines /\ lines[1].bucket = "LOAN_PRINCIPAL"
      /\ lines[1].member = borrower /\ lines[1].amount = amount
      /\ \A i \in DOMAIN lines \ {1} : lines[i].member = GroupAccount
  BY DEF Pair
<1> HIDE DEF lines
<1>4. Ledger!LineSum(lines, m, "LOAN_PRINCIPAL") = IF borrower = m THEN amount ELSE 0
  BY <1>2, <1>3, LineSumOfFirst
<1>5. QED
  BY <1>4 DEF DisburseCommand, lines

LEMMA RepaymentOnAccount ==
    ASSUME NEW r, command[r] \in Instruction, command[r].op = "repay",
           AllocationOf(r) \in [Part -> Nat], NEW m \in Member
    PROVE  Ledger!LineSum(RepayCommand(r).lines, m, "LOAN_PRINCIPAL") =
               IF m = Contract[LoanOf(r)].borrower THEN 0 - AllocationOf(r)["principal"] ELSE 0
<1> DEFINE borrower == Contract[LoanOf(r)].borrower
           parts(p) == PartLines(r, p)
           lines == (parts("principal") \o parts("interest")) \o parts("penalty")
           b == "LOAN_PRINCIPAL"
<1>1. borrower \in Member
  BY InstructionFacts, LoanFacts DEF LoanOf
<1>2. ASSUME NEW p \in Part
      PROVE  /\ parts(p) \in Seq(LedgerLine)
             /\ AllocationOf(r)[p] \in Nat
             /\ AllocationOf(r)[p] = 0 => parts(p) = <<>>
             /\ AllocationOf(r)[p] # 0 =>
                   /\ Len(parts(p)) = 2
                   /\ parts(p)[1] = [member |-> borrower, bucket |-> BucketOf[p],
                                     amount |-> 0 - AllocationOf(r)[p]]
                   /\ parts(p)[2].member = GroupAccount
                   /\ parts(p)[2].bucket = BucketOf[p]
  <2>1. AllocationOf(r)[p] \in Nat /\ BucketOf[p] \in FundBucket
    BY DEF Part, BucketOf, FundBucket
  <2>2. 0 - AllocationOf(r)[p] \in Int
    BY <2>1
  <2>3. Pair(BucketOf[p], borrower, 0 - AllocationOf(r)[p]) \in Seq(LedgerLine)
    BY <1>1, <2>1, <2>2, PairType
  <2>4. QED
    BY <2>1, <2>3 DEF PartLines, Pair
<1>3. /\ BucketOf["principal"] = b /\ BucketOf["interest"] # b /\ BucketOf["penalty"] # b
      /\ "principal" \in Part /\ "interest" \in Part /\ "penalty" \in Part
  BY DEF BucketOf, Part
<1> HIDE DEF borrower, parts
<1>4. ASSUME NEW p \in {"interest", "penalty"}
      PROVE  \A i \in DOMAIN parts(p) : parts(p)[i].bucket # b
  <2>1. p \in Part /\ BucketOf[p] # b
    BY <1>3
  <2>2. PICK x \in Seq(LedgerLine) : x = parts(p)
    BY <1>2, <2>1
  <2>3. \/ x = <<>>
        \/ Len(x) = 2 /\ x[1].bucket = BucketOf[p] /\ x[2].bucket = BucketOf[p]
    <3>1. CASE AllocationOf(r)[p] = 0
      BY <1>2, <2>1, <2>2, <3>1
    <3>2. CASE AllocationOf(r)[p] # 0
      <4>1. /\ Len(x) = 2 /\ x[2].bucket = BucketOf[p]
            /\ x[1] = [member |-> borrower, bucket |-> BucketOf[p],
                       amount |-> 0 - AllocationOf(r)[p]]
        BY <1>2, <2>1, <2>2, <3>2
      <4>2. QED
        BY <4>1
    <3>3. QED
      BY <3>1, <3>2
  <2>4. \A i \in DOMAIN x : x[i].bucket # b
    BY <2>1, <2>3
  <2>5. QED
    BY <2>2, <2>4
<1>5. parts("principal") \in Seq(LedgerLine) /\ parts("interest") \in Seq(LedgerLine)
      /\ parts("penalty") \in Seq(LedgerLine)
  BY <1>2, <1>3
<1>6. lines \in Seq(LedgerLine)
  BY <1>5
<1>7. \A i \in DOMAIN lines :
          \/ i \in DOMAIN parts("principal") /\ lines[i] = parts("principal")[i]
          \/ lines[i].bucket # b
  <2>1. \A i \in DOMAIN lines :
          \/ i \in DOMAIN parts("principal") /\ lines[i] = parts("principal")[i]
          \/ \E j \in DOMAIN parts("interest") : lines[i] = parts("interest")[j]
          \/ \E j \in DOMAIN parts("penalty") : lines[i] = parts("penalty")[j]
    <3>1. PICK x, y, z \in Seq(LedgerLine) :
             x = parts("principal") /\ y = parts("interest") /\ z = parts("penalty")
      BY <1>5
    <3>2. ASSUME NEW i \in DOMAIN ((x \o y) \o z)
          PROVE  \/ i \in DOMAIN x /\ ((x \o y) \o z)[i] = x[i]
                 \/ i - Len(x) \in DOMAIN y /\ ((x \o y) \o z)[i] = y[i - Len(x)]
                 \/ i - Len(x) - Len(y) \in DOMAIN z
                    /\ ((x \o y) \o z)[i] = z[i - Len(x) - Len(y)]
      OBVIOUS
    <3>3. QED
      BY <3>1, <3>2
  <2>2. QED
    BY <1>4, <2>1
<1> HIDE DEF lines
<1>8. CASE AllocationOf(r)["principal"] = 0
  <2>1. DOMAIN parts("principal") = {}
    <3>1. parts("principal") = <<>>
      BY <1>2, <1>3, <1>8
    <3>2. QED
      BY <3>1
  <2>2. \A i \in DOMAIN lines : lines[i].bucket # b
    BY <1>7, <2>1
  <2>3. Ledger!LineSum(lines, m, b) = 0
    BY <1>6, <2>2, LineSumOfNone
  <2>4. QED
    BY <1>8, <2>3 DEF RepayCommand, lines, parts
<1>9. CASE AllocationOf(r)["principal"] # 0
  <2>0. PICK x \in Seq(LedgerLine) : x = parts("principal")
    BY <1>5
  <2>1. /\ 1 \in DOMAIN x /\ DOMAIN x = {1, 2}
        /\ x[1].bucket = b /\ x[1].member = borrower
        /\ x[1].amount = 0 - AllocationOf(r)["principal"]
        /\ x[2].member = GroupAccount
    <3>1. /\ Len(x) = 2
          /\ x[1] = [member |-> borrower, bucket |-> b, amount |-> 0 - AllocationOf(r)["principal"]]
          /\ x[2].member = GroupAccount
      BY <1>2, <1>3, <1>9, <2>0
    <3>2. QED
      BY <3>1
  <2>2. 1 \in DOMAIN lines /\ lines[1] = x[1]
    <3>1. PICK y, z \in Seq(LedgerLine) : y = parts("interest") /\ z = parts("penalty")
      BY <1>5
    <3>2. x \o y \in Seq(LedgerLine)
      BY <2>0, <3>1
    <3>3. PICK xy \in Seq(LedgerLine) : xy = x \o y
      BY <3>2
    <3>4. 1 \in DOMAIN xy /\ xy[1] = x[1]
      BY <2>0, <2>1, <3>1, <3>3
    <3>5. 1 \in DOMAIN (xy \o z) /\ (xy \o z)[1] = x[1]
      BY <3>1, <3>3, <3>4
    <3>6. QED
      BY <2>0, <3>1, <3>3, <3>5 DEF lines
  <2>3. \A i \in DOMAIN lines \ {1} : lines[i].member = GroupAccount \/ lines[i].bucket # b
    BY <1>7, <2>0, <2>1
  <2>4. lines[1].bucket = b /\ lines[1].member = borrower
        /\ lines[1].amount = 0 - AllocationOf(r)["principal"]
    BY <2>1, <2>2
  <2>5. Ledger!LineSum(lines, m, b) = IF lines[1].member = m THEN lines[1].amount ELSE 0
    BY <1>6, <2>2, <2>3, <2>4, LineSumOfFirst
  <2>6. Ledger!LineSum(lines, m, b) =
          IF m = borrower THEN 0 - AllocationOf(r)["principal"] ELSE 0
    BY <2>4, <2>5
  <2>7. QED
    BY <2>6 DEF RepayCommand, lines, parts, borrower
<1>10. QED
  BY <1>8, <1>9
-----------------------------------------------------------------------------
\* Sums of amounts that are not negative.
LEMMA SumNat ==
    ASSUME NEW S, IsFiniteSet(S), NEW f, \A x \in S : f[x] \in Nat
    PROVE  SumFunctionOnSet(f, S) \in Nat
<1> DEFINE zero == [x \in S |-> 0]
<1>1. \A x \in S : zero[x] = 0
  OBVIOUS
<1> HIDE DEF zero
<1>2. SumFunctionOnSet(zero, S) = SumFunctionOnSet(zero, {})
  BY <1>1, SumPart
<1>3. SumFunctionOnSet(zero, S) = 0
  BY <1>2, SumEmpty
<1>4. \A x \in S : zero[x] \in Int /\ f[x] \in Int /\ zero[x] <= f[x]
  BY <1>1
<1>5. SumFunctionOnSet(zero, S) <= SumFunctionOnSet(f, S)
  BY <1>4, SumAtMost
<1>6. SumFunctionOnSet(f, S) \in Int
  BY <1>4, SumType
<1>7. QED
  BY <1>3, <1>5, <1>6

LEMMA SumWithin ==
    ASSUME NEW S, IsFiniteSet(S), NEW T \in SUBSET S, NEW f, \A x \in S : f[x] \in Nat
    PROVE  SumFunctionOnSet(f, T) <= SumFunctionOnSet(f, S)
<1> DEFINE part == [x \in S |-> IF x \in T THEN f[x] ELSE 0]
<1>1. /\ \A x \in T : part[x] \in Int /\ part[x] = f[x]
      /\ \A x \in S \ T : part[x] = 0
      /\ \A x \in S : part[x] \in Int /\ f[x] \in Int /\ part[x] <= f[x]
  OBVIOUS
<1> HIDE DEF part
<1>2. IsFiniteSet(T)
  BY FS_Subset
<1>3. SumFunctionOnSet(part, S) = SumFunctionOnSet(part, T)
  BY <1>1, SumPart
<1>4. SumFunctionOnSet(part, T) = SumFunctionOnSet(f, T)
  BY <1>1, <1>2, SumSame
<1>5. SumFunctionOnSet(part, S) <= SumFunctionOnSet(f, S)
  BY <1>1, SumAtMost
<1>6. QED
  BY <1>3, <1>4, <1>5

-----------------------------------------------------------------------------
\* The principal that is outstanding on the active rows.
PrincipalOf(items) == [n \in Active(items) |-> Outstanding(items[n])["principal"]]

LEMMA OutstandingIs ==
    ASSUME NEW rows, RowsSound(rows)
    PROVE  /\ IsFiniteSet(Active(rows))
           /\ \A n \in Active(rows) :
                 /\ PrincipalOf(rows)[n] \in Nat
                 /\ PrincipalOf(rows)[n] = rows[n].due["principal"] - rows[n].paid["principal"]
           /\ OutstandingPrincipal(rows) = SumFunctionOnSet(PrincipalOf(rows), Active(rows))
           /\ OutstandingPrincipal(rows) \in Nat
<1>1. IsFiniteSet(Active(rows))
  <2>1. rows \in Seq(ItemRow)
    BY DEF RowsSound
  <2>2. IsFiniteSet(1..Len(rows)) /\ Active(rows) \subseteq 1..Len(rows)
    BY <2>1, FS_Interval DEF Active
  <2>3. QED
    BY <2>2, FS_Subset
<1>2. ASSUME NEW n \in Active(rows)
      PROVE  /\ PrincipalOf(rows)[n] = rows[n].due["principal"] - rows[n].paid["principal"]
             /\ PrincipalOf(rows)[n] \in Nat
  <2>1. rows[n] \in ItemRow /\ AddsUp(rows[n])
    BY DEF RowsSound, Active
  <2>2. PrincipalOf(rows)[n] = rows[n].due["principal"] - rows[n].paid["principal"]
    BY DEF PrincipalOf, Outstanding, Part
  <2>3. QED
    BY <2>1, <2>2 DEF ItemRow, AddsUp, Part
<1>3. OutstandingPrincipal(rows) = SumFunctionOnSet(PrincipalOf(rows), Active(rows))
  <2>1. DOMAIN PrincipalOf(rows) = Active(rows)
    BY DEF PrincipalOf
  <2>2. OutstandingPrincipal(rows) = SumFunction(PrincipalOf(rows))
    BY DEF OutstandingPrincipal, PrincipalOf
  <2>3. QED
    BY <2>1, <2>2, SumOverDomain
<1>4. SumFunctionOnSet(PrincipalOf(rows), Active(rows)) \in Nat
  BY <1>1, <1>2, SumNat
<1>5. QED
  BY <1>1, <1>2, <1>3, <1>4

\* Without active rows nothing is outstanding.
LEMMA NothingOutstanding ==
    ASSUME NEW rows, RowsSound(rows), Active(rows) = {}
    PROVE  OutstandingPrincipal(rows) = 0
BY OutstandingIs, SumEmpty

\* Rows that are active in both and have the same principal outstanding.
LEMMA SamePrincipal ==
    ASSUME NEW old, RowsSound(old), NEW new, RowsSound(new), Active(new) = Active(old),
           \A n \in Active(old) : /\ new[n].due = old[n].due
                                  /\ new[n].paid["principal"] = old[n].paid["principal"]
    PROVE  OutstandingPrincipal(new) = OutstandingPrincipal(old)
<1>1. \A n \in Active(old) : PrincipalOf(new)[n] = PrincipalOf(old)[n]
  BY OutstandingIs
<1>2. SumFunctionOnSet(PrincipalOf(new), Active(old)) =
        SumFunctionOnSet(PrincipalOf(old), Active(old))
  BY <1>1, OutstandingIs, SumSame
<1>3. QED
  BY <1>2, OutstandingIs

\* One row is paid more.
LEMMA PrincipalPaid ==
    ASSUME NEW old, RowsSound(old), NEW new, RowsSound(new), Active(new) = Active(old),
           NEW n \in Active(old), new[n].due = old[n].due,
           \A k \in Active(old) \ {n} : new[k] = old[k]
    PROVE  /\ new[n].paid["principal"] \in Int /\ old[n].paid["principal"] \in Int
           /\ OutstandingPrincipal(new) =
                 OutstandingPrincipal(old) - (new[n].paid["principal"] - old[n].paid["principal"])
<1>1. /\ \A k \in Active(old) : PrincipalOf(new)[k] \in Int /\ PrincipalOf(old)[k] \in Int
      /\ \A k \in Active(old) \ {n} : PrincipalOf(new)[k] = PrincipalOf(old)[k]
  BY OutstandingIs
<1>2. /\ SumFunctionOnSet(PrincipalOf(new), Active(old)) =
            SumFunctionOnSet(PrincipalOf(old), Active(old)) + PrincipalOf(new)[n]
              - PrincipalOf(old)[n]
      /\ SumFunctionOnSet(PrincipalOf(old), Active(old)) \in Int
  <2>1. IsFiniteSet(Active(old))
    BY OutstandingIs
  <2>2. PICK S, f, g : S = Active(old) /\ f = PrincipalOf(old) /\ g = PrincipalOf(new)
    OBVIOUS
  <2>3. IsFiniteSet(S) /\ n \in S
    BY <2>1, <2>2
  <2>4. /\ \A y \in S : f[y] \in Int /\ g[y] \in Int
        /\ \A y \in S \ {n} : g[y] = f[y]
    BY <1>1, <2>2
  <2>5. /\ SumFunctionOnSet(g, S) = SumFunctionOnSet(f, S) + g[n] - f[n]
        /\ SumFunctionOnSet(f, S) \in Int
    BY ONLY <2>3, <2>4, SumChange
  <2>6. QED
    BY <2>2, <2>5
<1>3. new[n] \in ItemRow /\ old[n] \in ItemRow
  BY DEF RowsSound, Active
<1>4. /\ new[n].paid["principal"] \in Int /\ old[n].paid["principal"] \in Int
      /\ old[n].due["principal"] \in Int
  BY <1>3 DEF ItemRow, Part
<1>5. /\ PrincipalOf(new)[n] = old[n].due["principal"] - new[n].paid["principal"]
      /\ PrincipalOf(old)[n] = old[n].due["principal"] - old[n].paid["principal"]
  BY OutstandingIs
<1>6. /\ OutstandingPrincipal(new) = SumFunctionOnSet(PrincipalOf(new), Active(old))
      /\ OutstandingPrincipal(old) = SumFunctionOnSet(PrincipalOf(old), Active(old))
  BY OutstandingIs
<1>7. QED
  BY <1>2, <1>4, <1>5, <1>6

LEMMA SupersededNone ==
    ASSUME NEW rows, RowsSound(rows), NEW r \in Request
    PROVE  Active(Superseded(rows, r)) = {} /\ Len(Superseded(rows, r)) = Len(rows)
<1>1. rows \in Seq(ItemRow) /\ r # NoReschedule
  BY LoanServicingAssumption DEF RowsSound
<1>2. DOMAIN Superseded(rows, r) = DOMAIN rows
  BY DEF Superseded
<1>3. ASSUME NEW n \in DOMAIN rows PROVE Superseded(rows, r)[n].superseded # NoReschedule
  <2>1. rows[n] \in ItemRow
    BY <1>1
  <2>2. [rows[n] EXCEPT !.superseded = r].superseded = r
    BY <2>1 DEF ItemRow
  <2>3. QED
    BY <1>1, <2>2 DEF Superseded, Active
<1>4. Superseded(rows, r) \in Seq(ItemRow)
  BY SupersededRows DEF RowsSound
<1>5. Len(Superseded(rows, r)) = Len(rows)
  BY <1>1, <1>2, <1>4
<1>6. QED
  BY <1>2, <1>3, <1>5 DEF Active

\* Rows that come after superseded ones are those that count.
LEMMA AppendedPrincipal ==
    ASSUME NEW rows, RowsSound(rows), Active(rows) = {}, NEW more, RowsSound(more)
    PROVE  OutstandingPrincipal(rows \o more) = OutstandingPrincipal(more)
<1> DEFINE all == rows \o more
           h == [n \in Active(more) |-> Len(rows) + n]
<1>1. rows \in Seq(ItemRow) /\ more \in Seq(ItemRow)
  BY DEF RowsSound
<1>2. /\ \A n \in DOMAIN more : Len(rows) + n \in DOMAIN all /\ all[Len(rows) + n] = more[n]
      /\ \A k \in DOMAIN all : \/ k \in DOMAIN rows /\ all[k] = rows[k]
                               \/ /\ k - Len(rows) \in DOMAIN more
                                  /\ all[k] = more[k - Len(rows)]
                                  /\ k = Len(rows) + (k - Len(rows))
  BY <1>1
<1>3. RowsSound(all)
  BY AppendedRows
<1> HIDE DEF all
<1>4. \A n \in Active(more) : h[n] \in Active(all) /\ PrincipalOf(all)[h[n]] = PrincipalOf(more)[n]
  <2>1. ASSUME NEW n \in Active(more)
        PROVE  h[n] \in Active(all) /\ all[h[n]] = more[n]
    BY <1>2 DEF Active
  <2>2. QED
    BY <2>1 DEF PrincipalOf
<1>5. \A k \in Active(all) : \E n \in Active(more) : h[n] = k
  <2>1. ASSUME NEW k \in Active(all) PROVE \E n \in Active(more) : h[n] = k
    <3>1. k \in DOMAIN all /\ all[k].superseded = NoReschedule
      BY DEF Active
    <3>2. k \notin DOMAIN rows \/ all[k] # rows[k]
      BY <3>1 DEF Active
    <3>3. /\ k - Len(rows) \in DOMAIN more /\ all[k] = more[k - Len(rows)]
          /\ k = Len(rows) + (k - Len(rows))
      BY <1>2, <3>1, <3>2
    <3>4. k - Len(rows) \in Active(more)
      BY <3>1, <3>3 DEF Active
    <3>5. QED
      BY <3>3, <3>4
  <2>2. QED
    BY <2>1
<1>6. \A n, k \in Active(more) : h[n] = h[k] => n = k
  <2>1. Active(more) \subseteq Nat /\ Len(rows) \in Nat
    BY <1>1 DEF Active
  <2>2. QED
    BY <2>1
<1> HIDE DEF h
<1>7. LP!Renaming(Active(more), Active(all), h, PrincipalOf(more), PrincipalOf(all))
  <2>1. LP!IsFiniteSet(Active(more)) /\ LP!IsFiniteSet(Active(all))
    BY <1>3, OutstandingIs, SameSums
  <2>2. \A n \in Active(more) : PrincipalOf(more)[n] \in Int
    BY OutstandingIs
  <2>3. QED
    BY <1>4, <1>5, <1>6, <2>1, <2>2 DEF LP!Renaming
<1>8. SumFunctionOnSet(PrincipalOf(more), Active(more)) =
        SumFunctionOnSet(PrincipalOf(all), Active(all))
  BY <1>7, SumRenamed
<1>9. QED
  BY <1>3, <1>8, OutstandingIs DEF all
-----------------------------------------------------------------------------
\* Equal shares, as many as there are.
LEMMA SumOfEqual ==
    ASSUME NEW n \in Nat, NEW q \in Int, NEW f, \A i \in 1..n : f[i] = q
    PROVE  SumFunctionOnSet(f, 1..n) = n * q
<1> DEFINE T == {m \in 0..n : SumFunctionOnSet(f, 1..m) # m * q}
<1> SUFFICES ASSUME T # {} PROVE FALSE
  OBVIOUS
<1>1. PICK m \in T : \A k \in T : m <= k
  <2>1. T \subseteq Nat
    OBVIOUS
  <2> HIDE DEF T
  <2>2. QED
    BY <2>1, LeastNat
<1>2. m \in 0..n /\ SumFunctionOnSet(f, 1..m) # m * q
  OBVIOUS
<1>3. m # 0
  <2> SUFFICES ASSUME m = 0 PROVE FALSE
    OBVIOUS
  <2>1. 1..m = {}
    OBVIOUS
  <2>2. SumFunctionOnSet(f, 1..m) = 0
    BY <2>1, SumEmpty
  <2>3. QED
    BY <1>2, <2>2
<1>4. m - 1 \in 0..n /\ ~(m <= m - 1)
  BY <1>2, <1>3
<1>5. SumFunctionOnSet(f, 1..(m - 1)) = (m - 1) * q
  BY <1>1, <1>4
<1>6. SumFunctionOnSet(f, 1..m) = f[m] + SumFunctionOnSet(f, 1..(m - 1))
  <2>1. m \in Nat \ {0}
    BY <1>2, <1>3
  <2>2. IsFiniteSet(1..m)
    BY <2>1, FS_Interval
  <2>3. m \in 1..m /\ (1..m) \ {m} = 1..(m - 1)
    BY <2>1
  <2>4. \A i \in 1..m : f[i] \in Int
    BY <1>2
  <2> HIDE DEF T
  <2>5. SumFunctionOnSet(f, 1..m) = f[m] + SumFunctionOnSet(f, (1..m) \ {m})
    BY ONLY <2>2, <2>3, <2>4, SumRemove
  <2>6. QED
    BY ONLY <2>3, <2>5
<1>7. f[m] = q
  BY <1>2, <1>3
<1>8. m * q = (m - 1) * q + q
  BY <1>2
<1>9. (m - 1) * q \in Int
  BY <1>2
<1>10. QED
  BY <1>2, <1>5, <1>6, <1>7, <1>8, <1>9

\* All but the last instalment are equal shares; the last takes what is left.
LEMMA InstalmentsOfTotal ==
    ASSUME NEW n \in Nat \ {0}, NEW total \in Nat, NEW f,
           \A i \in 1..n : f[i] = Instalment(total, n, i)
    PROVE  SumFunctionOnSet(f, 1..n) = total
<1>1. PICK q, rest \in Int : q = total \div n /\ rest = total % n
  OBVIOUS
<1>2. total = n * q + rest
  BY <1>1
<1>3. /\ \A i \in 1..(n - 1) : f[i] = q
      /\ f[n] = q + rest
      /\ \A i \in 1..n : f[i] \in Int
  BY <1>1 DEF Instalment
<1>4. SumFunctionOnSet(f, 1..(n - 1)) = (n - 1) * q
  <2>1. n - 1 \in Nat
    OBVIOUS
  <2>2. PICK k \in Nat : k = n - 1
    BY <2>1
  <2>3. \A i \in 1..k : f[i] = q
    BY <1>3, <2>2
  <2>4. SumFunctionOnSet(f, 1..k) = k * q
    BY <2>3, SumOfEqual
  <2>5. QED
    BY <2>2, <2>4
<1>5. SumFunctionOnSet(f, 1..n) = f[n] + SumFunctionOnSet(f, 1..(n - 1))
  <2>1. IsFiniteSet(1..n)
    <3>1. n \in Int
      OBVIOUS
    <3>2. QED
      BY <3>1, FS_Interval
  <2>2. n \in 1..n /\ (1..n) \ {n} = 1..(n - 1)
    OBVIOUS
  <2>3. QED
    BY <1>3, <2>1, <2>2, SumRemove
<1>6. n * q = (n - 1) * q + q /\ (n - 1) * q \in Int
  OBVIOUS
<1>7. QED
  BY <1>2, <1>3, <1>4, <1>5, <1>6

\* A generated schedule has all of its principal outstanding.
LEMMA GeneratedPrincipal ==
    ASSUME NEW principal \in Nat, NEW terms \in Nat \ {0}, NEW rate \in Nat
    PROVE  /\ RowsSound(GenerateSchedule(principal, terms, rate))
           /\ OutstandingPrincipal(GenerateSchedule(principal, terms, rate)) = principal
<1> DEFINE rows == GenerateSchedule(principal, terms, rate)
           interest(i) == Instalment(TotalInterest(principal, terms, rate), terms, i)
<1>1. RowsSound(rows)
  BY GeneratedRows DEF RowsSound
<1>2. /\ DOMAIN rows = 1..terms
      /\ \A i \in 1..terms : rows[i] = NewItem(Instalment(principal, terms, i), interest(i))
  BY DEF GenerateSchedule
<1> HIDE DEF rows, interest
<1>3. \A i \in 1..terms : /\ rows[i].superseded = NoReschedule
                           /\ rows[i].due["principal"] = Instalment(principal, terms, i)
                           /\ rows[i].paid["principal"] = 0
  BY <1>2 DEF NewItem, Nothing, Part
<1>4. Active(rows) = 1..terms
  BY <1>2, <1>3 DEF Active
<1>5. \A i \in 1..terms : PrincipalOf(rows)[i] = Instalment(principal, terms, i)
  <2>1. \A i \in 1..terms : PrincipalOf(rows)[i] = Instalment(principal, terms, i) - 0
    BY <1>1, <1>3, <1>4, OutstandingIs
  <2>2. \A i \in 1..terms : Instalment(principal, terms, i) \in Nat
    BY QuotientNat DEF Instalment
  <2>3. QED
    BY <2>1, <2>2
<1>6. SumFunctionOnSet(PrincipalOf(rows), 1..terms) = principal
  BY <1>5, InstalmentsOfTotal
<1>7. QED
  BY <1>1, <1>4, <1>6, OutstandingIs DEF rows
-----------------------------------------------------------------------------
\* One turn of the allocation takes no more principal than the item owes.
LEMMA TakeBounds ==
    ASSUME NEW taken \in [Part -> Int], NEW item \in ItemRow, AddsUp(item), NEW amount \in Int
    PROVE  /\ Take(taken, item, amount) \in [Part -> Int]
           /\ Take(taken, item, amount)["principal"] <=
                 taken["principal"] + Outstanding(item)["principal"]
<1> DEFINE out == Outstanding(item)
           left == amount - Total(taken)
           penalty == Lesser(left, out["penalty"])
           interest == Lesser(left - penalty, out["interest"])
           principal == Lesser(left - penalty - interest, out["principal"])
<1>1. /\ out["principal"] \in Nat /\ out["interest"] \in Nat /\ out["penalty"] \in Nat
      /\ taken["principal"] \in Int /\ taken["interest"] \in Int /\ taken["penalty"] \in Int
  BY DEF Outstanding, ItemRow, AddsUp, Part
<1>2. left \in Int
  BY <1>1 DEF Total
<1> HIDE DEF out, left
<1>3. /\ penalty \in Int /\ interest \in Int /\ principal \in Int
      /\ principal <= out["principal"]
  BY <1>1, <1>2 DEF Lesser
<1> HIDE DEF penalty, interest, principal
<1>4. Take(taken, item, amount) =
        IF left <= 0 THEN taken
        ELSE [taken EXCEPT !["penalty"] = @ + penalty, !["interest"] = @ + interest,
                           !["principal"] = @ + principal]
  BY DEF Take, out, left, penalty, interest, principal
<1>5. CASE left <= 0
  BY <1>1, <1>4, <1>5 DEF out
<1>6. CASE ~(left <= 0)
  <2>1. Take(taken, item, amount) =
          [part \in Part |-> CASE part = "penalty" -> taken["penalty"] + penalty
                               [] part = "interest" -> taken["interest"] + interest
                               [] OTHER -> taken["principal"] + principal]
    BY <1>4, <1>6 DEF Part
  <2>2. QED
    BY <1>1, <1>3, <2>1 DEF Part, out
<1>7. QED
  BY <1>5, <1>6

\* An allocation takes no more principal than is outstanding on the rows that
\* can be repaid.
LEMMA AllocatedPrincipal ==
    ASSUME NEW items, RowsSound(items), NEW amount \in Int
    PROVE  /\ IsFiniteSet(Payable(items)) /\ Payable(items) \subseteq Active(items)
           /\ Allocation(amount, items)["principal"] <=
                 SumFunctionOnSet(PrincipalOf(items), Payable(items))
<1> DEFINE m == Len(items)
           First(k) == {n \in Payable(items) : n <= k}
           Due(k) == SumFunctionOnSet(PrincipalOf(items), First(k))
<1>1. IsFiniteSet(Payable(items)) /\ Payable(items) \subseteq Active(items)
  BY OutstandingIs, FS_Subset DEF Payable
<1>2. items \in Seq(ItemRow) /\ m \in Nat
  BY DEF RowsSound
<1>3. PICK taken : Taken(taken, m, amount, items) /\ Allocation(amount, items) = taken[m]
  BY <1>2, AllocationTaken
<1>4. \A n \in 0..m :
          taken[n] = IF n = 0 THEN Nothing
                     ELSE IF n \in Payable(items) THEN Take(taken[n - 1], items[n], amount)
                     ELSE taken[n - 1]
  BY <1>3 DEF Taken
<1>5. \A k : /\ IsFiniteSet(First(k))
             /\ \A n \in First(k) : PrincipalOf(items)[n] \in Int
             /\ Due(k) \in Int
  <2>1. ASSUME NEW k PROVE IsFiniteSet(First(k))
    BY <1>1, FS_Subset
  <2>2. \A k : \A n \in First(k) : PrincipalOf(items)[n] \in Int
    BY <1>1, OutstandingIs
  <2>3. ASSUME NEW k PROVE Due(k) \in Int
    <3>1. PICK S : S = First(k)
      OBVIOUS
    <3>2. IsFiniteSet(S) /\ \A n \in S : PrincipalOf(items)[n] \in Int
      BY <2>1, <2>2, <3>1
    <3>3. SumFunctionOnSet(PrincipalOf(items), S) \in Int
      BY <3>2, SumType
    <3>4. QED
      BY <3>1, <3>3
  <2>4. QED
    BY <2>1, <2>2, <2>3
<1>6. /\ Payable(items) \subseteq 1..m
      /\ \A n \in Payable(items) : items[n] \in ItemRow /\ AddsUp(items[n])
  BY <1>2 DEF Payable, Active, RowsSound
<1>7. First(0) = {} /\ First(m) = Payable(items)
  BY <1>2, <1>6
<1>8. ASSUME NEW k \in 1..m
      PROVE  /\ k \in Payable(items) => Due(k) = Due(k - 1) + Outstanding(items[k])["principal"]
             /\ k \notin Payable(items) => Due(k) = Due(k - 1)
  <2>1. CASE k \in Payable(items)
    <3>1. k \in First(k) /\ First(k) \ {k} = First(k - 1)
      BY <1>6, <2>1
    <3>2. PICK S, T : S = First(k) /\ T = First(k - 1)
      OBVIOUS
    <3>3. /\ IsFiniteSet(S) /\ \A n \in S : PrincipalOf(items)[n] \in Int
          /\ k \in S /\ T = S \ {k}
      BY <1>5, <3>1, <3>2
    <3>4. /\ SumFunctionOnSet(PrincipalOf(items), S) =
                PrincipalOf(items)[k] + SumFunctionOnSet(PrincipalOf(items), T)
      BY <3>3, SumRemove
    <3>5. PrincipalOf(items)[k] = Outstanding(items[k])["principal"]
      BY <1>1, <2>1 DEF PrincipalOf
    <3>6. PrincipalOf(items)[k] \in Int /\ Due(k - 1) \in Int
      BY <1>5, <3>1
    <3>7. QED
      BY <2>1, <3>2, <3>4, <3>5, <3>6
  <2>2. CASE k \notin Payable(items)
    <3>1. First(k) = First(k - 1)
      BY <1>6, <2>2
    <3>2. QED
      BY <2>2, <3>1
  <2>3. QED
    BY <2>1, <2>2
<1> HIDE DEF m, First, Due
<1> DEFINE Good(k) == taken[k] \in [Part -> Int] /\ taken[k]["principal"] <= Due(k)
           Bad == {k \in 0..m : ~Good(k)}
<1>9. ASSUME Bad # {} PROVE FALSE
  <2>1. Bad \subseteq Nat
    OBVIOUS
  <2>2. PICK k \in Bad : \A j \in Bad : k <= j
    <3> HIDE DEF Bad
    <3>1. QED
      BY <1>9, <2>1, LeastNat
  <2>3. CASE k = 0
    <3>1. taken[0] = Nothing
      BY <1>2, <1>4
    <3>2. Due(0) = 0
      BY <1>7, SumEmpty DEF Due
    <3>3. QED
      BY <2>2, <2>3, <3>1, <3>2 DEF Nothing, Part
  <2>4. CASE k # 0
    <3>1. k \in 1..m /\ k - 1 \in 0..m /\ ~(k <= k - 1)
      BY <1>2, <2>2, <2>4
    <3>2. Good(k - 1)
      BY <2>2, <3>1
    <3>3. Due(k - 1) \in Int /\ Due(k) \in Int
      BY <1>5
    <3>4. CASE k \in Payable(items)
      <4>1. taken[k] = Take(taken[k - 1], items[k], amount)
        BY <1>4, <2>4, <3>1, <3>4
      <4>2. /\ taken[k] \in [Part -> Int]
            /\ taken[k]["principal"] <=
                  taken[k - 1]["principal"] + Outstanding(items[k])["principal"]
        BY <1>6, <3>2, <3>4, <4>1, TakeBounds
      <4>3. Due(k) = Due(k - 1) + Outstanding(items[k])["principal"]
        BY <1>8, <3>1, <3>4
      <4>4. /\ Outstanding(items[k])["principal"] \in Int /\ taken[k - 1]["principal"] \in Int
            /\ taken[k]["principal"] \in Int /\ taken[k - 1]["principal"] <= Due(k - 1)
        <5>1. Outstanding(items[k])["principal"] \in Int
          BY <1>6, <3>4 DEF Outstanding, ItemRow, Part
        <5>2. QED
          BY <3>2, <4>2, <5>1 DEF Part
      <4>5. taken[k]["principal"] <= Due(k)
        BY <3>3, <4>2, <4>3, <4>4
      <4>6. QED
        BY <2>2, <4>2, <4>5
    <3>5. CASE k \notin Payable(items)
      <4>1. taken[k] = taken[k - 1]
        BY <1>4, <2>4, <3>1, <3>5
      <4>2. Due(k) = Due(k - 1)
        BY <1>8, <3>1, <3>5
      <4>3. QED
        BY <2>2, <3>2, <4>1, <4>2
    <3>6. QED
      BY <3>4, <3>5
  <2>5. QED
    BY <2>3, <2>4
<1>10. m \in 0..m
  BY <1>2
<1>11. taken[m]["principal"] <= Due(m)
  BY <1>9, <1>10
<1>12. QED
  BY <1>1, <1>3, <1>7, <1>11 DEF Due
-----------------------------------------------------------------------------
\* While requests are served one at a time and none dies, a loan's schedule and
\* its ledger accounts tell the same story, up to what the request being served
\* has still to write.
NoneDied == \A r \in Request : pc[r] # "crashed"

\* The ledger call of r has entered its event, and r has not recorded it yet.
Entered(r) == pc[r] = "posting" /\ ledgerPc[r] \in {"audit", "done"}

PrincipalLines(m) == [e \in Request |-> Ledger!LineSum(events[e].lines, m, "LOAN_PRINCIPAL")]

\* The event is about the principal of l and of no other borrower.
OnLoan(e, l) ==
    /\ events[e].tenant = Contract[l].tenant
    /\ \A m \in Member : m # Contract[l].borrower => PrincipalLines(m)[e] = 0

\* Every event is a disbursement that the loan's state shows, or one that a
\* repayment names, or that of the request being served.
Accounted(e) ==
    \/ \E l \in Loan : /\ state[l] # "APPROVED"
                       /\ events[e].key = DisbursementKey(l) /\ OnLoan(e, l)
    \/ \E q \in Stored : repayments[q].ledgerEvent = e /\ OnLoan(e, repayments[q].loan)
    \/ Entered(e)

CallOf(r) == IF command[r].op = "disburse" THEN DisburseCommand(r) ELSE RepayCommand(r)

\* What r holds of its ledger call, of the rows it read, and of its writes.
Calls(r) ==
    /\ pc[r] \in Step \ {"start"} => Contract[LoanOf(r)].tenant = command[r].tenant
    /\ pc[r] = "posting" => ledgerCommand[r] = CallOf(r)
    /\ Entered(r) => events[r] = Ledger!PostedRow(ledgerCommand[r])
    /\ pc[r] = "posting" /\ command[r].op = "repay" => WithKey(command[r].key) = {}

Repays(r) == pc[r] = "posting" /\ command[r].op = "repay"

Reads(r) ==
    /\ Repays(r) \/ pc[r] \in {"reading", "rescheduleEvent", "superseding"} =>
          frame[r].items = schedule[LoanOf(r)]
    /\ Repays(r) \/ pc[r] = "reading" => frame[r].left = AllocationOf(r)

Writes(r) ==
    /\ pc[r] = "updating" =>
          /\ frame[r].todo \subseteq Active(schedule[LoanOf(r)])
          /\ \A n \in frame[r].todo : schedule[LoanOf(r)][n] = frame[r].items[n]
          /\ frame[r].left["principal"] <=
                SumFunctionOnSet(PrincipalOf(schedule[LoanOf(r)]), frame[r].todo)
    /\ pc[r] = "creating" =>
          /\ Len(schedule[LoanOf(r)]) = Len(frame[r].items)
          /\ Active(schedule[LoanOf(r)]) = {}

Serial == IInv /\ SerialInv /\ RepaymentIsPosted

\* A step of r, alone and alive.
Acts(r) == MaxInFlight = 1 /\ Serial /\ r \in Request /\ (Arrive(r) \/ Advance(r))
-----------------------------------------------------------------------------
LEMMA PostedRowType ==
    ASSUME NEW c \in LP!PostCommand
    PROVE  Ledger!PostedRow(c) # NoEvent
<1>1. Ledger!PostedRow(c) \in Ledger!EventRow(Request)
  BY DEF Ledger!PostedRow, Ledger!EventRow, Ledger!Line, LP!PostCommand, LedgerLine
<1>2. QED
  BY <1>1, LedgerNullsAssumption

\* The call is well formed, and its allocation is what the request carries.
LEMMA CallSound ==
    ASSUME Serial, NEW r \in Request, pc[r] = "posting", Reads(r)
    PROVE  /\ CallOf(r) \in LP!PostCommand
           /\ command[r] \in Instruction /\ LoanOf(r) \in Loan
           /\ command[r].op \in {"disburse", "repay"}
           /\ command[r].op = "repay" =>
                 AllocationOf(r) \in [Part -> Nat] /\ frame[r].left = AllocationOf(r)
<1>1. /\ command[r] \in Instruction /\ LoanOf(r) \in Loan
      /\ command[r].op \in {"disburse", "repay"}
  BY OwnCommand DEF Serial, IInv, Step
<1>2. CASE command[r].op = "disburse"
  BY <1>1, <1>2, DisburseCommandType DEF CallOf
<1>3. CASE command[r].op = "repay"
  <2>1. frame[r].left = AllocationOf(r) /\ frame[r].left \in Split(command[r].amount)
    BY <1>3 DEF Reads, Repays, Serial, IInv, HandlerInv, FrameInv
  <2>2. FullyAllocated(r)
    BY <2>1 DEF FullyAllocated
  <2>3. RepayCommand(r) \in LP!PostCommand /\ AllocationOf(r) \in [Part -> Nat]
    BY <1>1, <1>3, <2>2, RepayCommandType
  <2>4. QED
    BY <1>1, <1>3, <2>1, <2>3 DEF CallOf
<1>4. QED
  BY <1>1, <1>2, <1>3

LEMMA CallKept ==
    ASSUME NEW r, UNCHANGED command, frame'[r].items = frame[r].items
    PROVE  CallOf(r)' = CallOf(r) /\ AllocationOf(r)' = AllocationOf(r) /\ LoanOf(r)' = LoanOf(r)
BY DEF CallOf, DisburseCommand, RepayCommand, PartLines, AllocationOf, LoanOf

\* The ledger does not know the key of a call that is looking for it.
LEMMA NothingFound ==
    ASSUME Serial, \A e \in LP!Ids(events) : Accounted(e), NEW r \in Request,
           pc[r] = "posting", ledgerPc[r] = "lookup", Calls(r), Reads(r)
    PROVE  Ledger!ByKey(events, ledgerCommand[r].key) = {}
<1> SUFFICES ASSUME NEW e \in LP!Ids(events), events[e].key = ledgerCommand[r].key
             PROVE  FALSE
  BY SameIds DEF Ledger!ByKey
<1>1. /\ command[r].op \in {"disburse", "repay"}
      /\ ledgerCommand[r].key = IF command[r].op = "disburse" THEN DisbursementKey(LoanOf(r))
                                ELSE LedgerRepaymentKey(command[r].key)
  BY DEF Serial, IInv, HandlerInv, Handler
<1>2. \A l, k : DisbursementKey(l) # LedgerRepaymentKey(k)
  BY DEF DisbursementKey, LedgerRepaymentKey
<1>3. \A l, k : DisbursementKey(l) = DisbursementKey(k) => l = k
  BY DEF DisbursementKey
<1>4. \A l, k : LedgerRepaymentKey(l) = LedgerRepaymentKey(k) => l = k
  BY DEF LedgerRepaymentKey
<1>5. ASSUME NEW l \in Loan, state[l] # "APPROVED", events[e].key = DisbursementKey(l)
      PROVE  FALSE
  <2>1. command[r].op = "disburse" /\ LoanOf(r) = l
    BY <1>1, <1>2, <1>3, <1>5
  <2>2. state[LoanOf(r)] = "APPROVED"
    BY <2>1 DEF Serial, SerialInv, Found, StateWanted, Step
  <2>3. QED
    BY <1>5, <2>1, <2>2
<1>6. ASSUME NEW q \in Stored, repayments[q].ledgerEvent = e PROVE FALSE
  <2>1. events[e].key = LedgerRepaymentKey(repayments[q].key)
    BY <1>6, PostedDef DEF Serial, RepaymentIsPosted
  <2>2. command[r].op = "repay" /\ repayments[q].key = command[r].key
    BY <1>1, <1>2, <1>4, <2>1
  <2>3. QED
    BY <2>2 DEF Calls, WithKey
<1>7. ASSUME Entered(e) PROVE FALSE
  <2>1. e \in Request /\ pc[e] = "posting" /\ ledgerPc[e] # "lookup"
    BY <1>7 DEF Entered, LP!Ids, Serial, IInv, LedgerInv, LP!TypeOK
  <2>2. e \in InFlight /\ r \in InFlight
    BY <2>1 DEF InFlight, Step
  <2>3. QED
    BY <2>1, <2>2 DEF Serial, SerialInv, Alone
<1>8. Accounted(e)
  OBVIOUS
<1>9. QED
  BY <1>5, <1>6, <1>7, <1>8 DEF Accounted

\* A ledger step: the key is not there, the event enters, the audit row follows.
LEMMA LedgerMoves ==
    ASSUME Serial, \A e \in LP!Ids(events) : Accounted(e), NEW r \in Request,
           Calls(r), Reads(r), LedgerStep(r)
    PROVE  /\ ledgerCommand' = ledgerCommand
           /\ \/ ledgerPc'[r] \in {"insert", "refused"} /\ UNCHANGED events
              \/ /\ events[r] = NoEvent
                 /\ events' = [events EXCEPT ![r] = Ledger!PostedRow(ledgerCommand[r])]
                 /\ ledgerPc'[r] = "audit"
              \/ /\ ledgerPc[r] = "audit" /\ ledgerPc'[r] = "done"
                 /\ UNCHANGED events
<1>1. ledgerPc \in [Request -> {"idle"} \cup LP!Step \cup LP!Finished]
  BY DEF Serial, IInv, LedgerInv, LP!TypeOK
<1>2. CASE Ledger!Lookup(r)
  <2>1. pc[r] = "posting" /\ ledgerPc[r] = "lookup"
    BY <1>2 DEF LedgerStep, Ledger!Lookup
  <2>2. Ledger!ByKey(events, ledgerCommand[r].key) = {}
    BY <2>1, NothingFound
  <2>3. QED
    BY <1>1, <1>2, <2>2 DEF Ledger!Lookup, Ledger!Goto
<1>3. CASE Ledger!Insert(r)
  <2>1. events[r] = NoEvent
    BY <1>3 DEF Ledger!Insert, Serial, IInv, LedgerInv, LP!CallInv, LP!OwnRow
  <2>2. QED
    BY <1>1, <1>3, <2>1 DEF Ledger!Insert, Ledger!Goto
<1>4. CASE Ledger!Audit(r)
  BY <1>1, <1>4 DEF Ledger!Audit, Ledger!Return, Ledger!Goto
<1>5. QED
  BY <1>2, <1>3, <1>4 DEF LedgerStep

\* A call that has just started has entered nothing.
LEMMA NotEntered ==
    ASSUME Serial, NEW r \in Request, NEW c, Ledger!StartPost(r, c)
    PROVE  ledgerCommand'[r] = c /\ ~Entered(r)' /\ UNCHANGED events
<1>1. /\ ledgerPc \in [Request -> {"idle"} \cup LP!Step \cup LP!Finished]
      /\ ledgerCommand \in [Request -> LP!Command \cup {NoCommand}]
  BY DEF Serial, IInv, LedgerInv, LP!TypeOK
<1>2. QED
  BY <1>1 DEF Ledger!StartPost, Ledger!Goto, Entered
-----------------------------------------------------------------------------
\* What a step may need of the types of r.
LEMMA ActorFacts ==
    ASSUME Serial, NEW r \in Request
    PROVE  /\ TypeOK /\ HandlerInv /\ LedgerInv /\ InstalmentsAddUp /\ SerialInv
           /\ Handler(r) /\ FrameInv(r) /\ Found(r) /\ frame[r] \in Frame
           /\ pc[r] \in Step => command[r] \in Instruction /\ LoanOf(r) \in Loan
BY OwnCommand DEF Serial, IInv, HandlerInv, SerialInv, TypeOK

\* Steps after which r relies on nothing, but for the tenant of the loan.
Ends(r) ==
    \/ Arrive(r) \/ TurnedAway(r) \/ LoanRefused(r) \/ LedgerRefused(r) \/ AppendAudit(r)
    \/ \E how \in Finished : Leave(r, how)

LEMMA EndsStep ==
    ASSUME TypeOK, NEW r \in Request, Ends(r)
    PROVE  pc'[r] \notin Step \ {"start"}
<1>1. \E how \in Finished \cup {"start"} : Goto(r, how)
  BY DEF Ends, Arrive, TurnedAway, LoanRefused, LedgerRefused, AppendAudit, Leave, Finished,
     Refusal
<1>2. QED
  BY <1>1 DEF Goto, TypeOK, Finished, Refusal, Step, RepayStep, WaiveStep, RescheduleStep

LEMMA CallsStep ==
    ASSUME NEW r, Acts(r), \A e \in LP!Ids(events) : Accounted(e), Calls(r), Reads(r)
    PROVE  Calls(r)'
<1> USE DEF Step, RepayStep, WaiveStep, RescheduleStep
<1>0. r \in Request /\ Serial
  BY DEF Acts
<1>1. /\ TypeOK /\ HandlerInv /\ LedgerInv /\ Handler(r) /\ Found(r) /\ frame[r] \in Frame
      /\ pc \in [Request -> {"idle"} \cup Step \cup Finished]
      /\ ledgerPc \in [Request -> {"idle"} \cup LP!Step \cup LP!Finished]
      /\ ledgerCommand \in [Request -> LP!Command \cup {NoCommand}]
      /\ events \in [Request -> LP!EventRow(Request) \cup {NoEvent}]
  BY <1>0, ActorFacts DEF TypeOK, LedgerInv, LP!TypeOK
<1>2. CASE Ends(r)
  <2>1. pc'[r] \notin Step \ {"start"}
    BY <1>0, <1>1, <1>2, EndsStep
  <2>2. QED
    BY <2>1 DEF Calls, Entered
<1>3. ASSUME pc[r] \in Step \ {"start"}, NEW s \in Step \ {"start", "posting"}, Goto(r, s),
             UNCHANGED command
      PROVE  Calls(r)'
  <2>1. pc'[r] = s
    BY <1>0, <1>1, <1>3 DEF Goto
  <2>2. QED
    BY <1>3, <2>1 DEF Calls, Entered, LoanOf
<1>4. CASE ReadForDisbursement(r)
  <2>1. /\ pc[r] = "start" /\ command[r].op = "disburse" /\ Goto(r, "posting")
        /\ Contract[LoanOf(r)].tenant = command[r].tenant
        /\ Ledger!StartPost(r, DisburseCommand(r)) /\ UNCHANGED <<tables, command, frame>>
    BY <1>4 DEF ReadForDisbursement, ReadAsWanted
  <2>2. ledgerCommand'[r] = DisburseCommand(r) /\ ~Entered(r)'
    BY <1>0, <2>1, NotEntered
  <2>3. pc'[r] = "posting"
    BY <1>0, <1>1, <2>1 DEF Goto
  <2>4. CallOf(r)' = CallOf(r) /\ LoanOf(r)' = LoanOf(r)
    BY <2>1, CallKept
  <2>5. CallOf(r) = DisburseCommand(r)
    BY <2>1 DEF CallOf
  <2>6. QED
    BY <2>1, <2>2, <2>3, <2>4, <2>5 DEF Calls
<1>5. CASE ReadForRepayment(r) \/ ReadForException(r)
  <2>1. CASE Leave(r, "refused")
    BY <1>2, <2>1 DEF Ends, Finished, Refusal
  <2>2. CASE ~Leave(r, "refused")
    <3>1. /\ Contract[LoanOf(r)].tenant = command[r].tenant /\ UNCHANGED command
          /\ Goto(r, "evidence") \/ Goto(r, "waiverEvent") \/ Goto(r, "rescheduleEvent")
      BY <1>5, <2>2 DEF ReadForRepayment, ReadForException, ReadAsWanted
    <3>2. pc'[r] \in {"evidence", "waiverEvent", "rescheduleEvent"}
      BY <1>0, <1>1, <3>1 DEF Goto
    <3>3. QED
      BY <3>1, <3>2 DEF Calls, Entered, LoanOf
  <2>3. QED
    BY <2>1, <2>2
<1>6. CASE LookupRepayment(r)
  <2>1. pc[r] = "lookup" /\ command[r].op = "repay" /\ UNCHANGED <<tables, command>>
    BY <1>0, <1>1, <1>6, OwnCommand DEF LookupRepayment
  <2>2. CASE Ends(r)
    BY <1>2, <2>2
  <2>3. CASE /\ WithKey(command[r].key) = {} /\ Ledger!StartPost(r, RepayCommand(r))
             /\ frame' = [frame EXCEPT ![r].left = AllocationOf(r)] /\ Goto(r, "posting")
    <3>1. ledgerCommand'[r] = RepayCommand(r) /\ ~Entered(r)'
      BY <1>0, <2>3, NotEntered
    <3>2. pc'[r] = "posting" /\ frame'[r].items = frame[r].items
      BY <1>0, <1>1, <2>3 DEF Goto, TypeOK, Frame
    <3>3. CallOf(r)' = CallOf(r) /\ LoanOf(r)' = LoanOf(r)
      BY <2>1, <3>2, CallKept
    <3>4. CallOf(r) = RepayCommand(r)
      BY <2>1 DEF CallOf
    <3>5. Contract[LoanOf(r)].tenant = command[r].tenant
      BY <2>1 DEF Calls
    <3>6. WithKey(command[r].key)' = {}
      BY <2>1, <2>3 DEF WithKey, Stored, tables
    <3>7. QED
      BY <2>1, <3>1, <3>2, <3>3, <3>4, <3>5, <3>6 DEF Calls
  <2>4. QED
    BY <1>6, <2>2, <2>3 DEF LookupRepayment, Ends, Finished, Refusal
<1>7. CASE LedgerStep(r)
  <2>1. pc[r] = "posting" /\ UNCHANGED <<tables, pc, command, frame>>
    BY <1>7 DEF LedgerStep
  <2>2. CallOf(r)' = CallOf(r) /\ LoanOf(r)' = LoanOf(r)
    BY <2>1, CallKept
  <2>3. ledgerCommand' = ledgerCommand
    BY <1>0, <1>7, LedgerMoves
  <2>4. Entered(r)' => events'[r] = Ledger!PostedRow(ledgerCommand[r])
    <3>1. CASE ledgerPc'[r] \in {"insert", "refused"}
      BY <3>1 DEF Entered
    <3>2. CASE events' = [events EXCEPT ![r] = Ledger!PostedRow(ledgerCommand[r])]
      BY <1>0, <1>1, <3>2
    <3>3. CASE ledgerPc[r] = "audit" /\ UNCHANGED events
      BY <2>1, <3>3 DEF Calls, Entered
    <3>4. QED
      BY <1>0, <1>7, <3>1, <3>2, <3>3, LedgerMoves
  <2>5. WithKey(command[r].key)' = WithKey(command[r].key)
    BY <2>1 DEF WithKey, Stored, tables
  <2>6. Ledger!PostedRow(ledgerCommand[r])' = Ledger!PostedRow(ledgerCommand[r])
    BY <2>3 DEF Ledger!PostedRow
  <2>7. QED
    BY <2>1, <2>2, <2>3, <2>4, <2>5, <2>6 DEF Calls
<1>8. CASE Activate(r) \/ CheckEvidence(r) \/ InsertRepayment(r) \/ ReadSchedule(r)
           \/ CountUnpaid(r) \/ Complete(r)
  <2>1. CASE Ends(r)
    BY <1>2, <2>1
  <2>2. CASE ~Ends(r)
    <3>1. /\ pc[r] \in Step \ {"start"} /\ UNCHANGED command
          /\ \E s \in Step \ {"start", "posting"} : Goto(r, s)
      BY <1>8, <2>2 DEF Activate, CheckEvidence, InsertRepayment, ReadSchedule, CountUnpaid,
         Complete, Ends, Finished, Refusal
    <3>2. QED
      BY <1>3, <3>1
  <2>3. QED
    BY <2>1, <2>2
<1>9. CASE UpdateItem(r)
  <2>1. pc[r] = "updating" /\ pc'[r] \in {"updating", "counting"} /\ UNCHANGED command
    BY <1>0, <1>1, <1>9 DEF UpdateItem, Goto
  <2>2. QED
    BY <2>1 DEF Calls, Entered, LoanOf
<1>10. CASE InsertException(r) \/ WaiveItem(r) \/ Rescheduling(r)
  <2>1. CASE Ends(r)
    BY <1>2, <2>1
  <2>2. CASE ~Ends(r)
    <3>1. /\ pc[r] \in Step \ {"start"} /\ UNCHANGED command
          /\ \E s \in Step \ {"start", "posting"} : Goto(r, s)
      BY <1>10, <2>2 DEF InsertException, WaiveItem, Rescheduling, Supersede, CreateItems,
         MarkRescheduled, Ends, Finished, Refusal
    <3>2. QED
      BY <1>3, <3>1
  <2>3. QED
    BY <2>1, <2>2
<1>11. Arrive(r) \/ Advance(r)
  BY DEF Acts
<1>12. QED
  BY <1>2, <1>4, <1>5, <1>6, <1>7, <1>8, <1>9, <1>10, <1>11
     DEF Ends, Advance, Disbursement, Repayment
-----------------------------------------------------------------------------
LEMMA ReadsStep ==
    ASSUME NEW r, Acts(r), Reads(r)
    PROVE  Reads(r)'
<1> USE DEF Step, RepayStep, WaiveStep, RescheduleStep, Repays
<1>0. r \in Request /\ Serial
  BY DEF Acts
<1>1. /\ TypeOK /\ HandlerInv /\ Handler(r) /\ Found(r) /\ frame[r] \in Frame
      /\ pc \in [Request -> {"idle"} \cup Step \cup Finished]
      /\ frame \in [Request -> Frame]
  BY <1>0, ActorFacts DEF TypeOK
<1>2. CASE Ends(r)
  <2>1. pc'[r] \notin Step \ {"start"}
    BY <1>0, <1>1, <1>2, EndsStep
  <2>2. QED
    BY <2>1 DEF Reads
<1>3. ASSUME NEW s \in Step \ {"posting", "reading", "rescheduleEvent", "superseding"}, Goto(r, s)
      PROVE  Reads(r)'
  <2>1. pc'[r] = s
    BY <1>0, <1>1, <1>3 DEF Goto
  <2>2. QED
    BY <1>3, <2>1 DEF Reads
<1>4. ASSUME UNCHANGED <<schedule, command>>, frame'[r].items = schedule[LoanOf(r)],
             pc'[r] \in {"rescheduleEvent", "superseding"} \/ frame'[r].left = AllocationOf(r)',
             pc'[r] \in Step
      PROVE  Reads(r)'
  BY <1>4 DEF Reads, LoanOf
<1>5. CASE ReadForDisbursement(r)
  <2>1. pc'[r] = "posting" /\ command'[r].op = "disburse"
    BY <1>0, <1>1, <1>5 DEF ReadForDisbursement, Goto
  <2>2. QED
    BY <2>1 DEF Reads
<1>6. CASE LookupRepayment(r)
  <2>1. pc[r] = "lookup" /\ UNCHANGED <<tables, command>>
    BY <1>6 DEF LookupRepayment
  <2>2. CASE Ends(r)
    BY <1>2, <2>2
  <2>3. CASE frame' = [frame EXCEPT ![r].left = AllocationOf(r)] /\ Goto(r, "posting")
    <3>1. /\ pc'[r] = "posting" /\ frame'[r].items = frame[r].items
          /\ frame'[r].left = AllocationOf(r)
      BY <1>0, <1>1, <2>3 DEF Goto, Frame
    <3>2. frame[r].items = schedule[LoanOf(r)]
      BY <1>1, <2>1 DEF Found
    <3>3. AllocationOf(r)' = AllocationOf(r)
      BY <2>1, <3>1 DEF AllocationOf
    <3>4. QED
      BY <1>4, <2>1, <3>1, <3>2, <3>3 DEF tables
  <2>4. QED
    BY <1>6, <2>2, <2>3 DEF LookupRepayment, Ends, Finished, Refusal
<1>7. CASE LedgerStep(r)
  <2>1. UNCHANGED <<schedule, pc, command, frame>>
    BY <1>7 DEF LedgerStep, tables
  <2>2. QED
    BY <2>1 DEF Reads, LoanOf, AllocationOf
<1>8. CASE InsertRepayment(r)
  <2>1. CASE Ends(r)
    BY <1>2, <2>1
  <2>2. CASE ~Ends(r)
    <3>1. /\ pc[r] = "posting" /\ command[r].op = "repay" /\ Goto(r, "reading")
          /\ UNCHANGED <<schedule, command, frame>>
      BY <1>8, <2>2 DEF InsertRepayment, Ends, Finished, Refusal
    <3>2. pc'[r] = "reading"
      BY <1>0, <1>1, <3>1 DEF Goto
    <3>3. frame[r].items = schedule[LoanOf(r)] /\ frame[r].left = AllocationOf(r)
      BY <3>1 DEF Reads
    <3>4. AllocationOf(r)' = AllocationOf(r)
      BY <3>1 DEF AllocationOf
    <3>5. QED
      BY <1>4, <3>1, <3>2, <3>3, <3>4
  <2>3. QED
    BY <2>1, <2>2
<1>9. CASE ReadForException(r) \/ InsertException(r)
  <2>1. CASE Ends(r)
    BY <1>2, <2>1
  <2>2. CASE Goto(r, "waiverEvent") \/ Goto(r, "waiving")
    BY <1>3, <2>2
  <2>3. CASE Goto(r, "rescheduleEvent") /\ ReadForException(r)
    <3>1. pc'[r] = "rescheduleEvent"
      BY <1>0, <1>1, <2>3 DEF Goto
    <3>2. frame' = [frame EXCEPT ![r].items = schedule[LoanOf(r)]] \/ Leave(r, "refused")
      BY <2>3 DEF ReadForException
    <3>3. ~Leave(r, "refused")
      BY <1>0, <1>1, <3>1 DEF Leave, Goto
    <3>4. frame'[r].items = schedule[LoanOf(r)] /\ UNCHANGED <<schedule, command>>
      BY <1>0, <1>1, <2>3, <3>2, <3>3 DEF ReadForException, Frame, tables
    <3>5. QED
      BY <1>4, <3>1, <3>4
  <2>4. CASE Goto(r, "superseding") /\ InsertException(r)
    <3>1. pc[r] \in {"waiverEvent", "rescheduleEvent"} /\ UNCHANGED <<schedule, command, frame>>
      BY <2>4 DEF InsertException
    <3>2. pc'[r] = "superseding" /\ pc[r] = "rescheduleEvent"
      BY <1>0, <1>1, <2>4, <3>1 DEF Goto, InsertException
    <3>3. QED
      BY <1>4, <3>1, <3>2 DEF Reads
  <2>5. QED
    BY <1>9, <2>1, <2>2, <2>3, <2>4
       DEF ReadForException, InsertException, Ends, Finished, Refusal
<1>10. CASE Activate(r) \/ ReadForRepayment(r) \/ CheckEvidence(r) \/ ReadSchedule(r)
            \/ CountUnpaid(r) \/ Complete(r) \/ WaiveItem(r) \/ Rescheduling(r)
  <2>1. CASE Ends(r)
    BY <1>2, <2>1
  <2>2. CASE ~Ends(r)
    <3>1. \E s \in Step \ {"posting", "reading", "rescheduleEvent", "superseding"} : Goto(r, s)
      BY <1>10, <2>2 DEF Activate, ReadForRepayment, CheckEvidence, ReadSchedule, CountUnpaid,
         Complete, WaiveItem, Rescheduling, Supersede, CreateItems, MarkRescheduled, Ends,
         Finished, Refusal
    <3>2. QED
      BY <1>3, <3>1
  <2>3. QED
    BY <2>1, <2>2
<1>11. CASE UpdateItem(r)
  <2>1. pc'[r] \in {"updating", "counting"}
    BY <1>0, <1>1, <1>11 DEF UpdateItem, Goto
  <2>2. QED
    BY <2>1 DEF Reads
<1>12. Arrive(r) \/ Advance(r)
  BY DEF Acts
<1>13. QED
  BY <1>2, <1>5, <1>6, <1>7, <1>8, <1>9, <1>10, <1>11, <1>12
     DEF Ends, Advance, Disbursement, Repayment
-----------------------------------------------------------------------------
LEMMA LoanRows ==
    ASSUME IInv, [Next]_vars, NEW l \in Loan
    PROVE  /\ RowsSound(schedule[l]) /\ RowsSound(schedule'[l])
           /\ schedule \in [Loan -> Seq(ItemRow)]
           /\ Later(schedule[l], schedule'[l])
BY ScheduleStep DEF IInv, TypeOK, InstalmentsAddUp, RowsSound

\* A turn of the update loop: one active row is paid its share of what is left.
Turn(r, n) ==
    /\ n \in frame[r].todo
    /\ WriteItem(LoanOf(r), n, Repaid(frame[r].items[n], frame[r].left))
    /\ frame' = [frame EXCEPT ![r].left = Minus(@, Share(frame[r].items[n], @)),
                             ![r].todo = @ \ {n}]

LEMMA TurnEffect ==
    ASSUME NEW r, Acts(r), Writes(r), UpdateItem(r), NEW n, Turn(r, n)
    PROVE  /\ n \in Active(schedule[LoanOf(r)])
           /\ Active(schedule'[LoanOf(r)]) = Active(schedule[LoanOf(r)])
           /\ \A k \in DOMAIN schedule[LoanOf(r)] \ {n} :
                 schedule'[LoanOf(r)][k] = schedule[LoanOf(r)][k]
           /\ schedule'[LoanOf(r)][n].paid["principal"] =
                 schedule[LoanOf(r)][n].paid["principal"]
                   + Lesser(frame[r].left["principal"], PrincipalOf(schedule[LoanOf(r)])[n])
           /\ frame'[r].items = frame[r].items /\ frame'[r].todo = frame[r].todo \ {n}
           /\ frame'[r].left["principal"] =
                 frame[r].left["principal"]
                   - Lesser(frame[r].left["principal"], PrincipalOf(schedule[LoanOf(r)])[n])
<1> DEFINE l == LoanOf(r)
           item == frame[r].items[n]
           left == frame[r].left
           columns == Repaid(item, left)
<1>0. r \in Request /\ Serial /\ pc[r] = "updating"
  BY DEF Acts, UpdateItem
<1>1. /\ TypeOK /\ frame[r] \in Frame /\ FrameInv(r) /\ l \in Loan
      /\ frame \in [Request -> Frame] /\ schedule \in [Loan -> Seq(ItemRow)]
  BY <1>0, ActorFacts DEF TypeOK, Step, RepayStep
<1>2. n \in Active(schedule[l]) /\ schedule[l][n] = item
  BY <1>0 DEF Writes, Turn
<1>3. n \in DOMAIN schedule[l] /\ schedule[l] \in Seq(ItemRow)
  BY <1>1, <1>2 DEF Active
<1>4. item \in ItemRow
  BY <1>2, <1>3
<1>5. WriteItem(l, n, columns)
  BY DEF Turn
<1>6. columns.paid["principal"] =
        item.paid["principal"] + Lesser(left["principal"], Outstanding(item)["principal"])
  BY DEF Repaid, Share, Part
<1>7. PrincipalOf(schedule[l])[n] = Outstanding(item)["principal"]
  BY <1>2 DEF PrincipalOf
<1>8. frame'[r] = [left |-> Minus(left, Share(item, left)), todo |-> frame[r].todo \ {n},
                   items |-> frame[r].items]
  BY <1>0, <1>1 DEF Frame, Turn
<1>9. Minus(left, Share(item, left))["principal"] =
        left["principal"] - Lesser(left["principal"], Outstanding(item)["principal"])
  BY DEF Minus, Share, Part
<1> HIDE DEF columns, l, left
<1>10. Active(schedule'[l]) = Active(schedule[l])
  BY <1>1, <1>3, <1>5, WriteKeepsActive
<1>11. schedule'[l] = [schedule[l] EXCEPT ![n] =
           [schedule[l][n] EXCEPT !.paid = columns.paid, !.status = columns.status]]
  BY <1>1, <1>5 DEF WriteItem
<1>12. /\ \A k \in DOMAIN schedule[l] \ {n} : schedule'[l][k] = schedule[l][k]
       /\ schedule'[l][n].paid = columns.paid
  <2>1. schedule[l][n] \in ItemRow
    BY <1>3
  <2>2. PICK row : row = [schedule[l][n] EXCEPT !.paid = columns.paid, !.status = columns.status]
    OBVIOUS
  <2>3. row.paid = columns.paid
    BY <2>1, <2>2 DEF ItemRow
  <2>4. schedule'[l] = [schedule[l] EXCEPT ![n] = row]
    BY <1>11, <2>2
  <2>5. QED
    BY <1>3, <2>3, <2>4
<1>13. schedule'[l][n].paid["principal"] =
         schedule[l][n].paid["principal"] + Lesser(left["principal"], PrincipalOf(schedule[l])[n])
  BY <1>2, <1>6, <1>7, <1>12
<1>14. /\ frame'[r].items = frame[r].items /\ frame'[r].todo = frame[r].todo \ {n}
       /\ frame'[r].left = Minus(left, Share(item, left))
  <2>1. PICK rest, todo, items : /\ rest = Minus(left, Share(item, left))
                                 /\ todo = frame[r].todo \ {n} /\ items = frame[r].items
    OBVIOUS
  <2>2. frame'[r] = [left |-> rest, todo |-> todo, items |-> items]
    BY <1>8, <2>1
  <2>3. frame'[r].left = rest /\ frame'[r].todo = todo /\ frame'[r].items = items
    BY ONLY <2>2
  <2>4. QED
    BY <2>1, <2>3
<1>15. frame'[r].left["principal"] =
         left["principal"] - Lesser(left["principal"], PrincipalOf(schedule[l])[n])
  BY <1>7, <1>9, <1>14
<1>16. QED
  BY <1>2, <1>10, <1>12, <1>13, <1>14, <1>15 DEF l, left
-----------------------------------------------------------------------------
\* What is left after a turn is not more than the rows to visit have outstanding.
LEMMA TurnLeaves ==
    ASSUME NEW S, IsFiniteSet(S), NEW f, NEW g, NEW n \in S, \A k \in S : f[k] \in Nat,
           \A k \in S \ {n} : g[k] = f[k], NEW left \in Nat,
           left <= SumFunctionOnSet(f, S)
    PROVE  left - Lesser(left, f[n]) <= SumFunctionOnSet(g, S \ {n})
<1>1. IsFiniteSet(S \ {n})
  BY FS_Subset
<1>2. SumFunctionOnSet(f, S) = f[n] + SumFunctionOnSet(f, S \ {n})
  BY SumRemove
<1>3. SumFunctionOnSet(f, S \ {n}) \in Nat
  BY <1>1, SumNat
<1>4. SumFunctionOnSet(g, S \ {n}) = SumFunctionOnSet(f, S \ {n})
  BY <1>1, SumSame
<1>5. f[n] \in Nat
  OBVIOUS
<1>6. QED
  BY <1>2, <1>3, <1>4, <1>5 DEF Lesser

LEMMA WritesStep ==
    ASSUME NEW r, Acts(r), Reads(r), Writes(r)
    PROVE  Writes(r)'
<1> USE DEF Step, RepayStep, WaiveStep, RescheduleStep
<1>0. r \in Request /\ Serial /\ [Next]_vars
  BY DEF Acts, Next
<1>1. /\ TypeOK /\ HandlerInv /\ Handler(r) /\ FrameInv(r) /\ frame[r] \in Frame
      /\ pc \in [Request -> {"idle"} \cup Step \cup Finished]
      /\ frame \in [Request -> Frame] /\ schedule \in [Loan -> Seq(ItemRow)]
      /\ pc[r] \in Step => LoanOf(r) \in Loan
  BY <1>0, ActorFacts DEF TypeOK
<1>2. pc'[r] \notin {"updating", "creating"} => Writes(r)'
  BY DEF Writes
<1>3. CASE ReadSchedule(r)
  <2>1. /\ pc[r] = "reading" /\ pc'[r] = "updating" /\ UNCHANGED <<schedule, command>>
        /\ frame'[r].items = schedule[LoanOf(r)] /\ frame'[r].left = frame[r].left
        /\ frame'[r].todo = Payable(schedule[LoanOf(r)])
    BY <1>0, <1>1, <1>3 DEF ReadSchedule, Goto, Frame, tables
  <2>2. command[r].amount \in Int
    BY <1>0, <2>1, OwnCommand, InstructionFacts DEF Serial, IInv, Repay
  <2>3. RowsSound(schedule[LoanOf(r)])
    BY <1>0, <1>1, <2>1, LoanRows DEF Serial
  <2>4. frame[r].left = Allocation(command[r].amount, schedule[LoanOf(r)])
    BY <2>1 DEF Reads, AllocationOf
  <2>5. /\ Payable(schedule[LoanOf(r)]) \subseteq Active(schedule[LoanOf(r)])
        /\ frame[r].left["principal"] <=
              SumFunctionOnSet(PrincipalOf(schedule[LoanOf(r)]), Payable(schedule[LoanOf(r)]))
    BY <2>2, <2>3, <2>4, AllocatedPrincipal
  <2>6. QED
    BY <2>1, <2>5 DEF Writes, LoanOf, PrincipalOf, Active
<1>4. CASE UpdateItem(r)
  <2>1. pc[r] = "updating" /\ UNCHANGED command /\ LoanOf(r) \in Loan
    BY <1>1, <1>4 DEF UpdateItem
  <2>2. CASE Goto(r, "counting")
    BY <1>0, <1>1, <1>2, <2>2 DEF Goto
  <2>3. ASSUME NEW n, Turn(r, n), UNCHANGED pc PROVE Writes(r)'
    <3> DEFINE old == schedule[LoanOf(r)]
               new == schedule'[LoanOf(r)]
               todo == frame[r].todo
               left == frame[r].left["principal"]
    <3>1. /\ n \in Active(old) /\ Active(new) = Active(old)
          /\ \A k \in DOMAIN old \ {n} : new[k] = old[k]
          /\ frame'[r].items = frame[r].items /\ frame'[r].todo = todo \ {n}
          /\ frame'[r].left["principal"] = left - Lesser(left, PrincipalOf(old)[n])
      BY <1>4, <2>3, TurnEffect
    <3>2. /\ todo \subseteq Active(old) /\ \A k \in todo : old[k] = frame[r].items[k]
          /\ left <= SumFunctionOnSet(PrincipalOf(old), todo)
      BY <2>1 DEF Writes
    <3>3. RowsSound(old) /\ RowsSound(new)
      BY <1>0, <2>1, LoanRows DEF Serial
    <3>4. left \in Nat
      BY <1>1 DEF FrameInv, Frame, Part
    <3> HIDE DEF old, new, todo, left
    <3>5. Active(old) \subseteq DOMAIN old
      BY DEF Active
    <3>6. \A k \in todo \ {n} : PrincipalOf(new)[k] = PrincipalOf(old)[k]
      BY <3>1, <3>2, <3>5 DEF PrincipalOf
    <3>7. IsFiniteSet(todo) /\ \A k \in todo : PrincipalOf(old)[k] \in Nat
      BY <3>2, <3>3, OutstandingIs, FS_Subset
    <3>8. n \in todo
      BY <2>3 DEF todo, Turn
    <3>9. left - Lesser(left, PrincipalOf(old)[n]) <= SumFunctionOnSet(PrincipalOf(new), todo \ {n})
      BY <3>2, <3>4, <3>6, <3>7, <3>8, TurnLeaves
    <3>10. /\ frame'[r].todo \subseteq Active(new)
           /\ \A k \in frame'[r].todo : new[k] = frame'[r].items[k]
           /\ frame'[r].left["principal"] <= SumFunctionOnSet(PrincipalOf(new), frame'[r].todo)
      BY <3>1, <3>2, <3>5, <3>9
    <3>11. LoanOf(r)' = LoanOf(r) /\ pc'[r] = "updating"
      BY <2>1, <2>3 DEF LoanOf
    <3>12. PrincipalOf(schedule[LoanOf(r)])' = PrincipalOf(new)
      BY <3>11 DEF PrincipalOf, Active, new
    <3>13. QED
      BY <3>10, <3>11, <3>12 DEF Writes, new, Active
  <2>4. QED
    BY <1>4, <2>2, <2>3 DEF UpdateItem, Turn
<1>5. CASE Supersede(r)
  <2>1. /\ pc[r] = "superseding" /\ pc'[r] = "creating" /\ UNCHANGED <<command, frame>>
        /\ LoanOf(r) \in Loan
        /\ schedule'[LoanOf(r)] = Superseded(schedule[LoanOf(r)], r)
    BY <1>0, <1>1, <1>5 DEF Supersede, Goto
  <2>2. frame[r].items = schedule[LoanOf(r)]
    BY <2>1 DEF Reads
  <2>3. /\ Active(schedule'[LoanOf(r)]) = {}
        /\ Len(schedule'[LoanOf(r)]) = Len(schedule[LoanOf(r)])
    BY <1>0, <2>1, LoanRows, SupersededNone DEF Serial
  <2>4. LoanOf(r)' = LoanOf(r)
    BY <2>1 DEF LoanOf
  <2>5. Active(schedule[LoanOf(r)])' = Active(schedule'[LoanOf(r)])
    BY <2>4 DEF Active
  <2>6. QED
    BY <2>1, <2>2, <2>3, <2>4, <2>5 DEF Writes
<1>6. CASE \/ Arrive(r) \/ TurnedAway(r) \/ LoanRefused(r) \/ LedgerRefused(r) \/ LedgerStep(r)
           \/ Disbursement(r) \/ ReadForRepayment(r) \/ CheckEvidence(r) \/ LookupRepayment(r)
           \/ InsertRepayment(r) \/ CountUnpaid(r) \/ Complete(r) \/ ReadForException(r)
           \/ InsertException(r) \/ WaiveItem(r) \/ CreateItems(r) \/ MarkRescheduled(r)
           \/ AppendAudit(r)
  <2>1. CASE LedgerStep(r)
    <3>1. pc'[r] = "posting"
      BY <2>1 DEF LedgerStep
    <3>2. QED
      BY <1>2, <3>1
  <2>2. CASE ~LedgerStep(r)
    <3>1. \E s \in Step \cup Finished : s \notin {"updating", "creating"} /\ Goto(r, s)
      BY <1>6, <2>2 DEF Arrive, TurnedAway, LoanRefused, LedgerRefused, Disbursement,
         ReadForDisbursement, Activate, ReadForRepayment, CheckEvidence, LookupRepayment,
         InsertRepayment, CountUnpaid, Complete, ReadForException, InsertException, WaiveItem,
         CreateItems, MarkRescheduled, AppendAudit, Leave, Finished, Refusal
    <3>2. pc'[r] \notin {"updating", "creating"}
      BY <1>0, <1>1, <3>1 DEF Goto
    <3>3. QED
      BY <1>2, <3>2
  <2>3. QED
    BY <2>1, <2>2
<1>7. Arrive(r) \/ Advance(r)
  BY DEF Acts
<1>8. QED
  BY <1>3, <1>4, <1>5, <1>6, <1>7 DEF Advance, Repayment, Rescheduling
-----------------------------------------------------------------------------
\* What stays true of the tables whatever overlaps or dies: they are finite, and
\* a repayment is of a loan that was paid out.
PaidOutLoans == {l \in Loan : state[l] # "APPROVED"}

Kept ==
    /\ IsFiniteSet(LP!Ids(events)) /\ IsFiniteSet(Stored) /\ IsFiniteSet(PaidOutLoans)
    /\ \A q \in Stored : /\ repayments[q].loan \in PaidOutLoans
                         /\ repayments[q].parts \in [Part -> Nat]

LEMMA FinitelyMany ==
    ASSUME NEW S, IsFiniteSet(S), NEW x, NEW T, T \subseteq S \cup {x}
    PROVE  IsFiniteSet(T)
<1>1. IsFiniteSet(S \cup {x})
  BY FS_AddElement
<1>2. QED
  BY <1>1, FS_Subset

LEMMA KeptStep ==
    ASSUME IInv, Kept, [Next]_vars
    PROVE  Kept'
<1>0. TypeOK /\ HandlerInv /\ LedgerInv
  BY DEF IInv
<1>1. IsFiniteSet(LP!Ids(events)')
  <2>1. CASE LP!Ids(events)' \subseteq LP!Ids(events)
    BY <2>1, FS_Subset DEF Kept
  <2>2. CASE ~(LP!Ids(events)' \subseteq LP!Ids(events))
    <3>1. PICK e \in LP!Ids(events)' : e \notin LP!Ids(events)
      BY <2>2
    <3>2. Ledger!Insert(e)
      BY <1>0, <3>1, EventsWriter
    <3>3. UNCHANGED events \/ events' = [events EXCEPT ![e] = Ledger!PostedRow(ledgerCommand[e])]
      BY <3>2 DEF Ledger!Insert
    <3>4. LP!Ids(events)' \subseteq LP!Ids(events) \cup {e}
      BY <3>3 DEF LP!Ids
    <3>5. QED
      BY <3>4, FinitelyMany DEF Kept
  <2>3. QED
    BY <2>1, <2>2
<1>2. IsFiniteSet(Stored')
  <2>1. CASE Stored' \subseteq Stored
    BY <2>1, FS_Subset DEF Kept
  <2>2. CASE ~(Stored' \subseteq Stored)
    <3>1. PICK q \in Stored' : q \notin Stored
      BY <2>2
    <3>2. Stored' \subseteq Stored \cup {q}
      BY <1>0, <3>1, NewlyStored
    <3>3. QED
      BY <3>2, FinitelyMany DEF Kept
  <2>3. QED
    BY <2>1, <2>2
<1>3. IsFiniteSet(PaidOutLoans')
  <2>1. CASE PaidOutLoans' \subseteq PaidOutLoans
    BY <2>1, FS_Subset DEF Kept
  <2>2. CASE ~(PaidOutLoans' \subseteq PaidOutLoans)
    <3>1. PICK l \in Loan : state[l] = "APPROVED" /\ state'[l] # "APPROVED"
      BY <2>2 DEF PaidOutLoans
    <3>2. PICK r \in Request : Activate(r) /\ LoanOf(r) = l
      BY <1>0, <3>1, StateMove
    <3>3. PaidOutLoans' \subseteq PaidOutLoans \cup {l}
      BY <1>0, <3>2 DEF Activate, PaidOutLoans, TypeOK
    <3>4. QED
      BY <3>3, FinitelyMany DEF Kept
  <2>3. QED
    BY <2>1, <2>2
<1>4. ASSUME NEW q \in Stored'
      PROVE  /\ repayments'[q].loan \in PaidOutLoans'
             /\ repayments'[q].parts \in [Part -> Nat]
  <2>1. CASE q \in Stored
    <3>1. repayments'[q] = repayments[q]
      BY <1>0, <2>1, RepaymentsKept
    <3>2. /\ repayments[q].loan \in Loan /\ state[repayments[q].loan] # "APPROVED"
          /\ repayments[q].parts \in [Part -> Nat]
      BY <2>1 DEF Kept, PaidOutLoans
    <3>3. state'[repayments[q].loan] # "APPROVED"
      BY <1>0, <3>2, StateStep
    <3>4. QED
      BY <3>1, <3>2, <3>3 DEF PaidOutLoans
  <2>2. CASE q \notin Stored
    <3>1. InsertRepayment(q) /\ q \in Request /\ repayments'[q] = NewRepayment(q)
      BY <1>0, <2>2, NewlyStored
    <3>2. /\ pc[q] = "posting" /\ command[q].op = "repay" /\ UNCHANGED state
          /\ pc[q] \in Step \ {"start"}
      BY <3>1 DEF InsertRepayment, Step
    <3>3. LoanOf(q) \in Loan /\ state[LoanOf(q)] # "APPROVED"
      BY <1>0, <3>1, <3>2, OwnCommand DEF HandlerInv, Handler
    <3>4. frame[q].left \in [Part -> Nat]
      BY <1>0, <3>1 DEF HandlerInv, FrameInv, TypeOK, Frame
    <3>5. QED
      BY <3>1, <3>2, <3>3, <3>4 DEF NewRepayment, PaidOutLoans
  <2>3. QED
    BY <2>1, <2>2
<1>5. QED
  BY <1>1, <1>2, <1>3, <1>4 DEF Kept
-----------------------------------------------------------------------------
\* The dead do not come back, and nobody dies in a step after which all live.
LEMMA AliveStep ==
    ASSUME MaxInFlight = 1, Serial, [Next]_vars, NoneDied'
    PROVE  NoneDied /\ (UNCHANGED vars \/ \E r \in Request : Acts(r))
<1>0. TypeOK /\ LP!TypeOK
  BY DEF Serial, IInv, LedgerInv
<1>1. CASE UNCHANGED vars
  BY <1>1 DEF NoneDied, vars
<1>2. ASSUME NEW r \in Request, Arrive(r) \/ Advance(r) \/ Crash(r)
      PROVE  NoneDied /\ Acts(r)
  <2>1. ~Crash(r)
    BY <1>0 DEF Crash, Leave, Goto, NoneDied, TypeOK
  <2>2. pc[r] # "crashed"
    BY <1>2, ActsInFlight DEF Arrive, InFlight, Step, RepayStep, WaiveStep, RescheduleStep
  <2>3. \A q \in Request : q # r => pc'[q] = pc[q]
    BY <1>0, <1>2, OthersStay
  <2>4. QED
    BY <1>2, <2>1, <2>2, <2>3 DEF NoneDied, Acts
<1>3. QED
  BY <1>1, <1>2 DEF Next

\* A loan that is not paid out yet has the schedule of its contract.
Unlent(l) ==
    state[l] = "APPROVED" =>
        schedule[l] = GenerateSchedule(Contract[l].principal, Contract[l].terms,
                                       Contract[l].rateBps)

LEMMA UnlentStep ==
    ASSUME Serial, [Next]_vars, NEW l \in Loan, Unlent(l)
    PROVE  Unlent(l)'
<1>0. TypeOK /\ HandlerInv /\ SerialInv
  BY DEF Serial, IInv
<1>1. SUFFICES ASSUME state'[l] = "APPROVED"
               PROVE  schedule'[l] = GenerateSchedule(Contract[l].principal, Contract[l].terms,
                                                      Contract[l].rateBps)
  BY DEF Unlent
<1>2. state[l] = "APPROVED"
  BY <1>0, <1>1, StateStep
<1>3. schedule'[l] = schedule[l]
  BY <1>0, <1>2, ScheduleWriters, SerialSchedule
<1>4. QED
  BY <1>2, <1>3 DEF Unlent
-----------------------------------------------------------------------------
\* What the event of r says, once it is in the ledger.
EntryOf(r) ==
    IF command[r].op = "disburse" THEN Contract[LoanOf(r)].principal
    ELSE 0 - frame[r].left["principal"]

LEMMA EnteredRow ==
    ASSUME Serial, NEW r \in Request, Entered(r), Calls(r), Reads(r)
    PROVE  /\ r \in LP!Ids(events)
           /\ events[r].tenant = Contract[LoanOf(r)].tenant
           /\ events[r].key = ledgerCommand[r].key
           /\ \A m \in Member :
                 PrincipalLines(m)[r] =
                    IF m = Contract[LoanOf(r)].borrower THEN EntryOf(r) ELSE 0
           /\ EntryOf(r) \in Int
<1>1. pc[r] = "posting" /\ pc[r] \in Step \ {"start"}
  BY DEF Entered, Step
<1>2. /\ CallOf(r) \in LP!PostCommand /\ command[r] \in Instruction /\ LoanOf(r) \in Loan
      /\ command[r].op \in {"disburse", "repay"}
      /\ command[r].op = "repay" =>
            AllocationOf(r) \in [Part -> Nat] /\ frame[r].left = AllocationOf(r)
  BY <1>1, CallSound
<1>3. events[r] = Ledger!PostedRow(CallOf(r)) /\ ledgerCommand[r] = CallOf(r)
  BY <1>1 DEF Calls
<1>4. r \in LP!Ids(events)
  BY <1>2, <1>3, PostedRowType DEF LP!Ids, Serial, IInv, LedgerInv, LP!TypeOK
<1>5. /\ events[r].tenant = CallOf(r).tenant /\ events[r].lines = CallOf(r).lines
      /\ events[r].key = CallOf(r).key
  BY <1>3 DEF Ledger!PostedRow
<1>6. CallOf(r).tenant = command[r].tenant
  BY DEF CallOf, DisburseCommand, RepayCommand
<1>7. Contract[LoanOf(r)].tenant = command[r].tenant
  BY <1>1 DEF Calls
<1>8. ASSUME NEW m \in Member
      PROVE  PrincipalLines(m)[r] =
                IF m = Contract[LoanOf(r)].borrower THEN EntryOf(r) ELSE 0
  <2>1. PrincipalLines(m)[r] = Ledger!LineSum(CallOf(r).lines, m, "LOAN_PRINCIPAL")
    BY <1>5 DEF PrincipalLines
  <2>2. CASE command[r].op = "disburse"
    BY <1>2, <2>1, <2>2, DisbursementOnAccount DEF CallOf, EntryOf
  <2>3. CASE command[r].op = "repay"
    <3>1. CallOf(r) = RepayCommand(r) /\ EntryOf(r) = 0 - AllocationOf(r)["principal"]
      BY <1>2, <2>3 DEF CallOf, EntryOf
    <3>2. QED
      BY <1>2, <2>1, <2>3, <3>1, RepaymentOnAccount
  <2>4. QED
    BY <1>2, <2>2, <2>3
<1>9. EntryOf(r) \in Int
  <2>1. CASE command[r].op = "disburse"
    BY <1>2, <2>1, LoanFacts DEF EntryOf
  <2>2. CASE command[r].op = "repay"
    BY <1>2, <2>2 DEF EntryOf, Part
  <2>3. QED
    BY <1>2, <2>1, <2>2
<1>10. QED
  BY <1>3, <1>4, <1>5, <1>6, <1>7, <1>8, <1>9

\* The request whose event it is records it next.
LEMMA Recording ==
    ASSUME NEW r, Acts(r), Entered(r), Calls(r), Reads(r)
    PROVE  \/ LedgerStep(r) /\ Entered(r)'
           \/ Activate(r) /\ events[r].key = DisbursementKey(LoanOf(r))
           \/ /\ InsertRepayment(r)
              /\ repayments' = [repayments EXCEPT ![r] = NewRepayment(r)]
              /\ NewRepayment(r).ledgerEvent = r
<1>0. r \in Request /\ Serial /\ pc[r] = "posting" /\ ledgerPc[r] \in {"audit", "done"}
  BY DEF Acts, Entered
<1>1. LedgerStep(r) \/ Activate(r) \/ InsertRepayment(r)
  BY <1>0 DEF Acts, Arrive, Advance, TurnedAway, LoanRefused, LedgerRefused, Disbursement,
     ReadForDisbursement, Repayment, ReadForRepayment, CheckEvidence, LookupRepayment,
     ReadSchedule, UpdateItem, CountUnpaid, Complete, ReadForException, InsertException,
     WaiveItem, Rescheduling, Supersede, CreateItems, MarkRescheduled, AppendAudit
<1>2. CASE LedgerStep(r)
  <2>1. ledgerPc'[r] = "done" /\ UNCHANGED pc
    <3>1. ledgerPc \in [Request -> {"idle"} \cup LP!Step \cup LP!Finished]
      BY <1>0 DEF Serial, IInv, LedgerInv, LP!TypeOK
    <3>2. QED
      BY <1>0, <1>2, <3>1 DEF LedgerStep, Ledger!Lookup, Ledger!Insert, Ledger!Audit,
         Ledger!Return, Ledger!Goto
  <2>2. QED
    BY <1>0, <1>2, <2>1 DEF Entered
<1>3. CASE Activate(r)
  <2>1. command[r].op = "disburse"
    BY <1>3 DEF Activate
  <2>2. CallOf(r).key = DisbursementKey(LoanOf(r)) /\ ledgerCommand[r] = CallOf(r)
    BY <1>0, <2>1 DEF Calls, CallOf, DisburseCommand
  <2>3. QED
    BY <1>0, <1>3, <2>2, EnteredRow
<1>4. CASE InsertRepayment(r)
  <2>1. command[r].op = "repay" /\ ledgerPc[r] = "done"
    BY <1>4 DEF InsertRepayment, LedgerReturned
  <2>2. ~KeyTaken(r)
    BY <1>0, <2>1 DEF Calls, KeyTaken
  <2>3. /\ ledgerResult[r] \in LP!Ids(events)
        /\ events[ledgerResult[r]].key = LedgerRepaymentKey(command[r].key)
    BY <1>0, <2>1, PostingReturned DEF Serial, IInv
  <2>4. CallOf(r).key = LedgerRepaymentKey(command[r].key) /\ ledgerCommand[r] = CallOf(r)
    BY <1>0, <2>1 DEF Calls, CallOf, RepayCommand
  <2>5. r \in LP!Ids(events) /\ events[r].key = LedgerRepaymentKey(command[r].key)
    BY <1>0, <2>4, EnteredRow
  <2>6. LedgerRepaymentKey(command[r].key) # NoKey
    <3>1. CallOf(r) \in LP!PostCommand /\ command[r] \in Instruction
      BY <1>0, CallSound
    <3>2. command[r].key \in RepaymentKey
      BY <2>1, <3>1, InstructionFacts DEF Repay
    <3>3. QED
      BY <3>2, LoanServicingAssumption DEF LedgerKey
  <2>7. ledgerResult[r] = r
    BY <1>0, <2>3, <2>5, <2>6 DEF Serial, IInv, LedgerInv, LP!OneEventPerKey
  <2>8. QED
    BY <1>4, <2>2, <2>7 DEF InsertRepayment, NewRepayment
<1>5. QED
  BY <1>1, <1>2, <1>3, <1>4
-----------------------------------------------------------------------------
\* Whoever has entered an event is the one that acts.
LEMMA EnteredActs ==
    ASSUME NEW r, Acts(r), NEW e \in Request, Entered(e) \/ Entered(e)'
    PROVE  e = r
<1>1. r \in Request /\ TypeOK /\ LedgerInv /\ Alone
  BY DEF Acts, Serial, IInv, SerialInv
<1>2. e # r => pc[e] \notin Step /\ pc'[e] \notin Step
  BY <1>1, OthersIdle DEF Acts
<1>3. QED
  BY <1>2 DEF Entered, Step

\* A new event is that of the acting request, which has entered it.
LEMMA NewEvent ==
    ASSUME NEW r, Acts(r), NEW e \in LP!Ids(events)', e \notin LP!Ids(events)
    PROVE  e = r /\ LedgerStep(r) /\ Entered(r)'
<1>1. Serial /\ TypeOK /\ LedgerInv /\ [Next]_vars
  BY DEF Acts, Serial, IInv, Next
<1>2. /\ e \in Request /\ LedgerStep(e) /\ Ledger!Insert(e)
      /\ events'[e] = Ledger!PostedRow(ledgerCommand[e])
  BY <1>1, EventsWriter
<1>3. ledgerPc'[e] = "audit"
  <2>1. ledgerPc \in [Request -> {"idle"} \cup LP!Step \cup LP!Finished]
    BY <1>1 DEF LedgerInv, LP!TypeOK
  <2>2. events[e] = NoEvent /\ events'[e] # NoEvent
    BY <1>1, <1>2 DEF LP!Ids, LedgerInv, LP!TypeOK
  <2>3. QED
    BY <1>2, <2>1, <2>2 DEF Ledger!Insert, Ledger!Goto
<1>4. Entered(e)'
  BY <1>2, <1>3 DEF LedgerStep, Entered
<1>5. QED
  BY <1>2, <1>4, EnteredActs

LEMMA OldEvent ==
    ASSUME Serial, [Next]_vars, NEW e \in LP!Ids(events)
    PROVE  /\ e \in Request /\ e \in LP!Ids(events)' /\ events'[e] = events[e]
           /\ \A m \in Member : PrincipalLines(m)'[e] = PrincipalLines(m)[e]
           /\ \A l \in Loan : OnLoan(e, l) => OnLoan(e, l)'
<1>1. TypeOK /\ HandlerInv /\ LedgerInv
  BY DEF Serial, IInv
<1>2. e \in LP!Ids(events)' /\ events'[e] = events[e]
  BY <1>1, IsLedgerStep, EventsKept
<1>3. e \in Request
  BY <1>1 DEF LP!Ids, LedgerInv, LP!TypeOK
<1>4. \A m \in Member : PrincipalLines(m)'[e] = PrincipalLines(m)[e]
  BY <1>2, <1>3 DEF PrincipalLines
<1>5. \A l \in Loan : OnLoan(e, l) => OnLoan(e, l)'
  BY <1>2, <1>4 DEF OnLoan
<1>6. QED
  BY <1>2, <1>3, <1>4, <1>5

LEMMA StoredNew ==
    ASSUME Serial, NEW r \in Request, InsertRepayment(r),
           repayments' = [repayments EXCEPT ![r] = NewRepayment(r)]
    PROVE  /\ repayments'[r] = NewRepayment(r) /\ r \notin Stored
           /\ Stored' = Stored \cup {r}
<1>1. TypeOK /\ HandlerInv /\ LedgerInv
  BY DEF Serial, IInv
<1>2. NewRepayment(r) # NoRepayment
  BY <1>1, NewRepaymentType, LoanServicingAssumption
<1>3. repayments[r] = NoRepayment
  BY <1>1 DEF HandlerInv, Handler, InsertRepayment
<1>4. repayments'[r] = NewRepayment(r)
  BY <1>1 DEF TypeOK
<1>5. \A q \in Request : q # r => repayments'[q] = repayments[q]
  BY <1>1 DEF TypeOK
<1>6. QED
  BY <1>2, <1>3, <1>4, <1>5 DEF Stored

LEMMA AccountedStep ==
    ASSUME NEW r, Acts(r), Calls(r), Reads(r), Kept, \A e \in LP!Ids(events) : Accounted(e),
           NEW e \in LP!Ids(events)'
    PROVE  Accounted(e)'
<1>0. /\ r \in Request /\ Serial /\ TypeOK /\ HandlerInv /\ LedgerInv /\ [Next]_vars
  BY DEF Acts, Serial, IInv, Next
<1>1. CASE e \notin LP!Ids(events)
  BY <1>1, NewEvent DEF Accounted
<1>2. CASE e \in LP!Ids(events)
  <2>0. e \in Request /\ \A l \in Loan : OnLoan(e, l) => OnLoan(e, l)'
    BY <1>0, <1>2, OldEvent
  <2>1. ASSUME NEW l \in Loan, state[l] # "APPROVED", events[e].key = DisbursementKey(l),
               OnLoan(e, l)
        PROVE  Accounted(e)'
    <3>1. state'[l] # "APPROVED" /\ events'[e].key = DisbursementKey(l) /\ OnLoan(e, l)'
      BY <1>0, <1>2, <2>1, StateStep, OldEvent
    <3>2. QED
      BY <3>1 DEF Accounted, DisbursementKey
  <2>2. ASSUME NEW q \in Stored, repayments[q].ledgerEvent = e, OnLoan(e, repayments[q].loan)
        PROVE  Accounted(e)'
    <3>1. q \in Stored' /\ repayments'[q] = repayments[q]
      BY <1>0, <2>2, RepaymentsKept
    <3>2. repayments[q].loan \in Loan
      BY DEF Kept, PaidOutLoans
    <3>3. OnLoan(e, repayments[q].loan)'
      <4>1. PICK l \in Loan : l = repayments[q].loan
        BY <3>2
      <4>2. OnLoan(e, l)' /\ l = repayments'[q].loan
        BY <2>0, <2>2, <3>1, <4>1
      <4>3. QED
        BY <4>2 DEF OnLoan
    <3>4. QED
      BY <2>2, <3>1, <3>3 DEF Accounted
  <2>3. CASE Entered(e)
    <3>0. e = r
      BY <2>0, <2>3, EnteredActs
    <3>1. Entered(r) /\ pc[r] \in Step \ {"start"}
      BY <2>3, <3>0 DEF Entered, Step
    <3>2. LoanOf(r) \in Loan
      BY <1>0, <3>1, OwnCommand
    <3>3. OnLoan(r, LoanOf(r))
      BY <1>0, <3>1, EnteredRow DEF OnLoan
    <3>4. CASE LedgerStep(r) /\ Entered(r)'
      BY <3>0, <3>4 DEF Accounted
    <3>5. CASE Activate(r) /\ events[r].key = DisbursementKey(LoanOf(r))
      <4>1. PICK l \in Loan : l = LoanOf(r)
        BY <3>2
      <4>2. state'[l] # "APPROVED" /\ events' = events
        BY <1>0, <3>5, <4>1 DEF Activate, TypeOK, ledgerVars
      <4>3. OnLoan(e, l)' /\ events'[e].key = DisbursementKey(l)
        BY <2>0, <3>0, <3>3, <3>5, <4>1, <4>2
      <4>4. QED
        BY <4>2, <4>3 DEF Accounted, DisbursementKey
    <3>6. CASE /\ InsertRepayment(r)
               /\ repayments' = [repayments EXCEPT ![r] = NewRepayment(r)]
               /\ NewRepayment(r).ledgerEvent = r
      <4>1. r \in Stored' /\ repayments'[r] = NewRepayment(r)
        BY <1>0, <3>6, StoredNew
      <4>2. repayments'[r].ledgerEvent = r /\ repayments'[r].loan = LoanOf(r)
        BY <3>6, <4>1 DEF NewRepayment
      <4>3. OnLoan(e, repayments[r].loan)'
        <5>1. PICK l \in Loan : l = LoanOf(r)
          BY <3>2
        <5>2. OnLoan(e, l)' /\ l = repayments'[r].loan
          BY <2>0, <3>0, <3>3, <4>2, <5>1
        <5>3. QED
          BY <5>2 DEF OnLoan
      <4>4. QED
        BY <3>0, <4>1, <4>2, <4>3 DEF Accounted
    <3>7. QED
      BY <3>1, <3>4, <3>5, <3>6, Recording
  <2>4. QED
    BY <1>2, <2>1, <2>2, <2>3 DEF Accounted
<1>3. QED
  BY <1>1, <1>2
-----------------------------------------------------------------------------
\* What a loan that was paid out still has of its principal, by its repayments;
\* and how far its schedule is behind while a request writes it.
PrincipalRepaid == [r \in Request |-> repayments[r].parts["principal"]]

Lent(l) == Contract[l].principal - SumFunctionOnSet(PrincipalRepaid, RepaymentsOf(l))

Writing(r, l) == pc[r] \in {"reading", "updating", "creating"} /\ LoanOf(r) = l

Behind(r) ==
    IF pc[r] = "creating" THEN 0 - OutstandingPrincipal(frame[r].items)
    ELSE frame[r].left["principal"]

Booked(l) ==
    state[l] # "APPROVED" =>
        /\ \A r \in Request :
              Writing(r, l) => OutstandingPrincipal(schedule[l]) = Lent(l) + Behind(r)
        /\ (\A r \in Request : ~Writing(r, l)) => OutstandingPrincipal(schedule[l]) = Lent(l)

\* The same, where r is the only request being served.
BookedAs(r, l) ==
    state[l] # "APPROVED" =>
        /\ Writing(r, l) => OutstandingPrincipal(schedule[l]) = Lent(l) + Behind(r)
        /\ ~Writing(r, l) => OutstandingPrincipal(schedule[l]) = Lent(l)

LEMMA BookedAlone ==
    ASSUME NEW r, Acts(r), NEW l
    PROVE  (Booked(l) => BookedAs(r, l)) /\ (BookedAs(r, l)' => Booked(l)')
<1>1. r \in Request /\ TypeOK /\ LedgerInv /\ Alone
  BY DEF Acts, Serial, IInv, SerialInv
<1>2. \A q \in Request : q # r => pc[q] \notin Step /\ pc'[q] \notin Step
  BY <1>1, OthersIdle DEF Acts
<1>3. \A q \in Request : q # r => ~Writing(q, l) /\ ~Writing(q, l)'
  BY <1>2 DEF Writing, Step, RepayStep, RescheduleStep
<1>4. Booked(l) => BookedAs(r, l)
  BY <1>1, <1>3 DEF Booked, BookedAs
<1>5. BookedAs(r, l)' => Booked(l)'
  BY <1>1, <1>3 DEF Booked, BookedAs
<1>6. QED
  BY <1>4, <1>5

LEMMA LentType ==
    ASSUME Kept, NEW l \in Loan
    PROVE  /\ IsFiniteSet(RepaymentsOf(l))
           /\ \A q \in RepaymentsOf(l) : PrincipalRepaid[q] \in Nat
           /\ SumFunctionOnSet(PrincipalRepaid, RepaymentsOf(l)) \in Int
           /\ Lent(l) \in Int
<1>1. IsFiniteSet(RepaymentsOf(l))
  BY FS_Subset DEF Kept, RepaymentsOf
<1>2. ASSUME NEW q \in RepaymentsOf(l) PROVE PrincipalRepaid[q] \in Nat
  <2>1. q \in Stored /\ q \in Request
    BY DEF RepaymentsOf, Stored
  <2>2. repayments[q].parts \in [Part -> Nat]
    BY <2>1 DEF Kept
  <2>3. QED
    BY <2>1, <2>2 DEF PrincipalRepaid, Part
<1>3. SumFunctionOnSet(PrincipalRepaid, RepaymentsOf(l)) \in Int
  BY <1>1, <1>2, SumType
<1>4. QED
  BY <1>1, <1>2, <1>3, LoanFacts DEF Lent

LEMMA LentSame ==
    ASSUME UNCHANGED repayments, NEW l
    PROVE  Lent(l)' = Lent(l)
BY DEF Lent, PrincipalRepaid, RepaymentsOf, Stored

LEMMA LentStep ==
    ASSUME Serial, Kept, NEW r \in Request, InsertRepayment(r), [Next]_vars,
           repayments' = [repayments EXCEPT ![r] = NewRepayment(r)], NEW l \in Loan
    PROVE  Lent(l)' = IF l = LoanOf(r) THEN Lent(l) - frame[r].left["principal"] ELSE Lent(l)
<1>0. /\ TypeOK /\ HandlerInv /\ Kept'
  BY KeptStep DEF Serial, IInv
<1>1. /\ repayments'[r] = NewRepayment(r) /\ r \notin Stored /\ Stored' = Stored \cup {r}
      /\ \A q \in Stored : repayments'[q] = repayments[q]
  BY <1>0, StoredNew, RepaymentsKept
<1>2. NewRepayment(r).loan = LoanOf(r) /\ NewRepayment(r).parts = frame[r].left
  BY DEF NewRepayment
<1>3. Stored \subseteq Request
  BY DEF Stored
<1>4. PrincipalRepaid'[r] = frame[r].left["principal"]
  BY <1>1, <1>2 DEF PrincipalRepaid
<1>5. \A q \in Stored : PrincipalRepaid'[q] = PrincipalRepaid[q]
  BY <1>1, <1>3 DEF PrincipalRepaid
<1>6. /\ IsFiniteSet(RepaymentsOf(l)) /\ \A q \in RepaymentsOf(l) : PrincipalRepaid[q] \in Int
      /\ SumFunctionOnSet(PrincipalRepaid, RepaymentsOf(l)) \in Int
  BY LentType
<1>7. RepaymentsOf(l) \subseteq Stored /\ Contract[l].principal \in Int
  BY LoanFacts DEF RepaymentsOf
<1>8. Lent(l)' = Contract[l].principal - SumFunctionOnSet(PrincipalRepaid', RepaymentsOf(l)')
  BY DEF Lent
<1>9. CASE l = LoanOf(r)
  <2>1. RepaymentsOf(l)' = RepaymentsOf(l) \cup {r}
    BY <1>1, <1>2, <1>9 DEF RepaymentsOf
  <2>2. r \notin RepaymentsOf(l) /\ PrincipalRepaid'[r] \in Int
    <3>1. r \in RepaymentsOf(l)'
      BY <2>1
    <3>2. (\A q \in RepaymentsOf(l) : PrincipalRepaid[q] \in Nat)'
      BY <1>0, LentType, PTL
    <3>3. QED
      BY <1>1, <1>7, <3>1, <3>2
  <2>3. PICK S, f, g : S = RepaymentsOf(l) /\ f = PrincipalRepaid /\ g = PrincipalRepaid'
    OBVIOUS
  <2>4. SumFunctionOnSet(g, S \cup {r}) = SumFunctionOnSet(f, S) + g[r]
    <3>1. /\ IsFiniteSet(S) /\ r \notin S /\ g[r] \in Int
          /\ \A q \in S : f[q] \in Int /\ g[q] = f[q]
      BY <1>5, <1>6, <1>7, <2>2, <2>3
    <3>2. QED
      BY ONLY <3>1, SumAdd
  <2>5. QED
    BY <1>4, <1>6, <1>7, <1>8, <1>9, <2>1, <2>2, <2>3, <2>4 DEF Lent
<1>10. CASE l # LoanOf(r)
  <2>1. RepaymentsOf(l)' = RepaymentsOf(l)
    BY <1>1, <1>2, <1>10 DEF RepaymentsOf
  <2>2. SumFunctionOnSet(PrincipalRepaid', RepaymentsOf(l)) =
          SumFunctionOnSet(PrincipalRepaid, RepaymentsOf(l))
    BY <1>5, <1>6, <1>7, SumSame
  <2>3. QED
    BY <1>8, <1>10, <2>1, <2>2 DEF Lent
<1>11. QED
  BY <1>9, <1>10
-----------------------------------------------------------------------------
\* Steps that write neither repayments nor the schedule of l, and pay nothing out.
LEMMA BookedSame ==
    ASSUME NEW r, NEW l, BookedAs(r, l), UNCHANGED repayments, schedule'[l] = schedule[l],
           state'[l] # "APPROVED" => state[l] # "APPROVED",
           ~Writing(r, l), ~Writing(r, l)'
    PROVE  BookedAs(r, l)'
<1>1. Lent(l)' = Lent(l)
  BY LentSame
<1>2. OutstandingPrincipal(schedule[l])' = OutstandingPrincipal(schedule[l])
  BY DEF OutstandingPrincipal, Active, Outstanding
<1>3. QED
  BY <1>1, <1>2 DEF BookedAs

\* The first step that names a new schedule of l.
LEMMA BookedNow ==
    ASSUME NEW r, NEW l, NEW rows, schedule'[l] = rows,
           /\ Writing(r, l)' => OutstandingPrincipal(rows) = Lent(l)' + Behind(r)'
           /\ ~Writing(r, l)' => OutstandingPrincipal(rows) = Lent(l)'
    PROVE  BookedAs(r, l)'
BY DEF BookedAs, OutstandingPrincipal, Active, Outstanding

LEMMA NotWriting ==
    ASSUME NEW r, NEW l
    PROVE  /\ pc[r] \notin {"reading", "updating", "creating"} => ~Writing(r, l)
           /\ pc'[r] \notin {"reading", "updating", "creating"} => ~Writing(r, l)'
BY DEF Writing
-----------------------------------------------------------------------------
LEMMA BookedQuiet ==
    ASSUME NEW r, Acts(r), NEW l \in Loan, BookedAs(r, l),
           \/ Arrive(r) \/ TurnedAway(r) \/ LoanRefused(r) \/ LedgerStep(r) \/ LedgerRefused(r)
           \/ ReadForDisbursement(r) \/ ReadForRepayment(r) \/ CheckEvidence(r)
           \/ LookupRepayment(r) \/ CountUnpaid(r) \/ Complete(r) \/ ReadForException(r)
           \/ InsertException(r) \/ MarkRescheduled(r) \/ AppendAudit(r)
    PROVE  BookedAs(r, l)'
<1>1. /\ r \in Request /\ Serial /\ TypeOK /\ Found(r)
      /\ pc \in [Request -> {"idle"} \cup Step \cup Finished]
      /\ state \in [Loan -> LoanState]
  BY ActorFacts DEF Acts, TypeOK
<1>2. UNCHANGED <<repayments, schedule>>
  BY DEF Arrive, TurnedAway, LoanRefused, LedgerStep, LedgerRefused, ReadForDisbursement,
     ReadForRepayment, CheckEvidence, LookupRepayment, CountUnpaid, Complete,
     ReadForException, InsertException, MarkRescheduled, AppendAudit, tables
<1>3. state'[l] # "APPROVED" => state[l] # "APPROVED"
  <2>1. CASE Complete(r) \/ MarkRescheduled(r)
    <3>1. pc[r] \in {"completing", "marking"}
      BY <2>1 DEF Complete, MarkRescheduled
    <3>2. command[r].op # "disburse"
      BY <1>1, <3>1, OwnCommand DEF Serial, IInv, Step, RepayStep, RescheduleStep
    <3>3. state[LoanOf(r)] = "ACTIVE"
      BY <1>1, <3>1, <3>2 DEF Found, StateWanted, Step, RepayStep, RescheduleStep
    <3>4. QED
      BY <1>1, <2>1, <3>3 DEF Complete, MarkRescheduled
  <2>2. CASE ~(Complete(r) \/ MarkRescheduled(r))
    BY <2>2 DEF Arrive, TurnedAway, LoanRefused, LedgerStep, LedgerRefused,
     ReadForDisbursement, ReadForRepayment, CheckEvidence, LookupRepayment, CountUnpaid,
     ReadForException, InsertException, AppendAudit, tables
  <2>3. QED
    BY <2>1, <2>2
<1>4. /\ pc[r] \notin {"reading", "updating", "creating"}
      /\ pc'[r] \notin {"reading", "updating", "creating"}
  <2>1. pc[r] \notin {"reading", "updating", "creating"}
    BY DEF Arrive, TurnedAway, LoanRefused, LedgerStep, LedgerRefused, ReadForDisbursement,
     ReadForRepayment, CheckEvidence, LookupRepayment, CountUnpaid, Complete,
     ReadForException, InsertException, MarkRescheduled, AppendAudit
  <2>2. CASE LedgerStep(r)
    BY <2>1, <2>2 DEF LedgerStep
  <2>3. CASE ~LedgerStep(r)
    <3>1. \E s \in Step \cup Finished : s \notin {"reading", "updating", "creating"} /\ Goto(r, s)
      BY <2>3 DEF Arrive, TurnedAway, LoanRefused, LedgerRefused, ReadForDisbursement,
       ReadForRepayment, CheckEvidence, LookupRepayment, CountUnpaid, Complete,
       ReadForException, InsertException, MarkRescheduled, AppendAudit, Leave, Finished,
       Refusal, Step, RepayStep, WaiveStep, RescheduleStep
    <3>2. QED
      BY <1>1, <2>1, <3>1 DEF Goto
  <2>4. QED
    BY <2>2, <2>3
<1>5. QED
  BY <1>2, <1>3, <1>4, BookedSame, NotWriting

\* Every other loan.
LEMMA BookedOther ==
    ASSUME NEW r, Acts(r), Kept, NEW l \in Loan, BookedAs(r, l), l # LoanOf(r),
           \/ Activate(r) \/ InsertRepayment(r) \/ ReadSchedule(r) \/ UpdateItem(r)
           \/ WaiveItem(r) \/ Supersede(r) \/ CreateItems(r)
    PROVE  BookedAs(r, l)'
<1>1. /\ r \in Request /\ Serial /\ TypeOK /\ HandlerInv /\ SerialInv /\ [Next]_vars
      /\ state \in [Loan -> LoanState] /\ UNCHANGED command
  BY ActorFacts DEF Acts, TypeOK, Activate, InsertRepayment, ReadSchedule, UpdateItem,
     WaiveItem, Supersede, CreateItems, Next
<1>2. ~Writing(r, l) /\ ~Writing(r, l)'
  BY <1>1 DEF Writing, LoanOf
<1>3. state'[l] = state[l]
  BY <1>1 DEF Activate, InsertRepayment, ReadSchedule, UpdateItem, WaiveItem, Supersede,
     CreateItems, tables
<1>4. schedule'[l] = schedule[l]
  <2>1. CASE UpdateItem(r) \/ WaiveItem(r) \/ Supersede(r) \/ CreateItems(r)
    BY <1>1, <2>1, SerialSchedule
  <2>2. CASE Activate(r) \/ InsertRepayment(r) \/ ReadSchedule(r)
    BY <2>2 DEF Activate, InsertRepayment, ReadSchedule, tables
  <2>3. QED
    BY <2>1, <2>2
<1>5. CASE UNCHANGED repayments
  BY <1>2, <1>3, <1>4, <1>5, BookedSame
<1>6. CASE ~UNCHANGED repayments
  <2>1. InsertRepayment(r) /\ repayments' = [repayments EXCEPT ![r] = NewRepayment(r)]
    BY <1>6 DEF Activate, InsertRepayment, ReadSchedule, UpdateItem, WaiveItem, Supersede,
       CreateItems, tables
  <2>2. Lent(l)' = Lent(l)
    BY <1>1, <2>1, LentStep
  <2>3. QED
    BY <1>2, <1>3, <1>4, <2>2, BookedNow DEF BookedAs
<1>7. QED
  BY <1>5, <1>6
-----------------------------------------------------------------------------
\* The loan of the acting request, l, step by step.
LEMMA BookedActivate ==
    ASSUME NEW r, Acts(r), Kept, NEW l \in Loan, l = LoanOf(r), Unlent(l), Activate(r)
    PROVE  BookedAs(r, l)'
<1>1. /\ r \in Request /\ Serial /\ TypeOK /\ Found(r)
      /\ pc \in [Request -> {"idle"} \cup Step \cup Finished]
  BY ActorFacts DEF Acts, TypeOK
<1>2. /\ pc[r] = "posting" /\ command[r].op = "disburse" /\ pc'[r] = "audit"
      /\ UNCHANGED <<schedule, repayments>>
  BY <1>1 DEF Activate, Goto
<1>3. state[l] = "APPROVED"
  BY <1>1, <1>2 DEF Found, StateWanted, Step
<1>4. OutstandingPrincipal(schedule[l]) = Contract[l].principal
  BY <1>3, LoanFacts, GeneratedPrincipal DEF Unlent
<1>5. RepaymentsOf(l) = {}
  BY <1>3 DEF Kept, PaidOutLoans, RepaymentsOf
<1>6. Lent(l)' = Contract[l].principal
  <2>1. SumFunctionOnSet(PrincipalRepaid, RepaymentsOf(l)) = 0
    BY <1>5, SumEmpty
  <2>2. Contract[l].principal \in Int /\ Lent(l)' = Lent(l)
    BY <1>2, LentSame, LoanFacts
  <2>3. QED
    BY <2>1, <2>2 DEF Lent
<1>7. QED
  BY <1>2, <1>4, <1>6, BookedNow, NotWriting

LEMMA BookedInsert ==
    ASSUME NEW r, Acts(r), Kept, NEW l \in Loan, l = LoanOf(r), BookedAs(r, l),
           InsertRepayment(r)
    PROVE  BookedAs(r, l)'
<1>1. /\ r \in Request /\ Serial /\ TypeOK /\ [Next]_vars
      /\ frame[r].left["principal"] \in Int
      /\ pc \in [Request -> {"idle"} \cup Step \cup Finished]
  BY ActorFacts DEF Acts, TypeOK, Next, Frame, Part
<1>2. pc[r] = "posting" /\ UNCHANGED <<schedule, state, command>>
  BY DEF InsertRepayment
<1>3. CASE Leave(r, "refused") /\ UNCHANGED repayments
  <2>1. pc'[r] = "refused"
    BY <1>1, <1>3 DEF Leave, Goto
  <2>2. QED
    BY <1>2, <1>3, <2>1, BookedSame, NotWriting
<1>4. CASE /\ repayments' = [repayments EXCEPT ![r] = NewRepayment(r)]
           /\ Goto(r, "reading") /\ UNCHANGED frame
  <2>1. pc'[r] = "reading"
    BY <1>1, <1>4 DEF Goto
  <2>2. Lent(l)' = Lent(l) - frame[r].left["principal"] /\ Lent(l) \in Int
    BY <1>1, <1>4, LentStep, LentType
  <2>3. state'[l] # "APPROVED" => OutstandingPrincipal(schedule[l]) = Lent(l)
    BY <1>2, NotWriting DEF BookedAs
  <2>4. Writing(r, l)' /\ Behind(r)' = frame[r].left["principal"]
    BY <1>2, <1>4, <2>1 DEF Writing, LoanOf, Behind
  <2>5. state'[l] # "APPROVED" => OutstandingPrincipal(schedule[l]) = Lent(l)' + Behind(r)'
    BY <1>1, <2>2, <2>3, <2>4
  <2>6. OutstandingPrincipal(schedule[l])' = OutstandingPrincipal(schedule[l])
    BY <1>2 DEF OutstandingPrincipal, Active, Outstanding
  <2>7. QED
    BY <2>4, <2>5, <2>6 DEF BookedAs
<1>5. QED
  BY <1>3, <1>4 DEF InsertRepayment

LEMMA BookedRead ==
    ASSUME NEW r, Acts(r), NEW l \in Loan, l = LoanOf(r), BookedAs(r, l), ReadSchedule(r)
    PROVE  BookedAs(r, l)'
<1>1. /\ r \in Request /\ frame \in [Request -> Frame] /\ frame[r] \in Frame
      /\ pc \in [Request -> {"idle"} \cup Step \cup Finished]
  BY ActorFacts DEF Acts, TypeOK
<1>2. /\ pc[r] = "reading" /\ pc'[r] = "updating" /\ UNCHANGED <<tables, command>>
      /\ frame'[r].left = frame[r].left
  BY <1>1 DEF ReadSchedule, Goto, Frame
<1>3. Lent(l)' = Lent(l)
  BY <1>2, LentSame DEF tables
<1>4. Writing(r, l) /\ Writing(r, l)' /\ Behind(r)' = Behind(r)
  BY <1>2 DEF Writing, LoanOf, Behind
<1>5. OutstandingPrincipal(schedule[l])' = OutstandingPrincipal(schedule[l]) /\ state' = state
  BY <1>2 DEF OutstandingPrincipal, Active, Outstanding, tables
<1>6. QED
  BY <1>3, <1>4, <1>5 DEF BookedAs

LEMMA BookedUpdate ==
    ASSUME NEW r, Acts(r), Kept, NEW l \in Loan, l = LoanOf(r), BookedAs(r, l), Writes(r),
           UpdateItem(r)
    PROVE  BookedAs(r, l)'
<1>1. /\ r \in Request /\ Serial /\ [Next]_vars /\ frame[r] \in Frame /\ FrameInv(r)
      /\ pc \in [Request -> {"idle"} \cup Step \cup Finished]
  BY ActorFacts DEF Acts, TypeOK, Next
<1>2. pc[r] = "updating" /\ UNCHANGED <<repayments, state, command>>
  BY DEF UpdateItem
<1>3. Writing(r, l) /\ Behind(r) = frame[r].left["principal"] /\ Lent(l)' = Lent(l)
  BY <1>2, LentSame DEF Writing, Behind
<1>4. state[l] # "APPROVED" =>
        OutstandingPrincipal(schedule[l]) = Lent(l) + frame[r].left["principal"]
  BY <1>3 DEF BookedAs
<1>5. Lent(l) \in Int /\ frame[r].left["principal"] \in Nat
  BY <1>1, LentType DEF FrameInv, Frame, Part
<1>6. CASE /\ frame[r].todo = {} \/ NothingLeft(r)
           /\ Goto(r, "counting") /\ UNCHANGED <<schedule, frame>>
  <2>1. frame[r].left["principal"] = 0
    <3>1. CASE NothingLeft(r)
      BY <1>5, <3>1 DEF NothingLeft, Part
    <3>2. CASE frame[r].todo = {}
      <4>1. frame[r].left["principal"] <=
              SumFunctionOnSet(PrincipalOf(schedule[LoanOf(r)]), {})
        BY <1>2, <3>2 DEF Writes
      <4>2. QED
        BY <1>5, <4>1, SumEmpty
    <3>3. QED
      BY <1>6, <3>1, <3>2
  <2>2. pc'[r] = "counting"
    BY <1>1, <1>6 DEF Goto
  <2>3. OutstandingPrincipal(schedule[l])' = OutstandingPrincipal(schedule[l])
    BY <1>6 DEF OutstandingPrincipal, Active, Outstanding
  <2>4. state[l] # "APPROVED" => OutstandingPrincipal(schedule[l]) = Lent(l)
    BY <1>4, <1>5, <2>1
  <2>5. QED
    BY <1>2, <1>3, <2>2, <2>3, <2>4, NotWriting DEF BookedAs
<1>7. ASSUME NEW n, Turn(r, n), UNCHANGED pc PROVE BookedAs(r, l)'
  <2>1. PICK taken : taken = Lesser(frame[r].left["principal"], PrincipalOf(schedule[l])[n])
    OBVIOUS
  <2>2. /\ n \in Active(schedule[l]) /\ Active(schedule'[l]) = Active(schedule[l])
        /\ \A k \in DOMAIN schedule[l] \ {n} : schedule'[l][k] = schedule[l][k]
        /\ schedule'[l][n].paid["principal"] = schedule[l][n].paid["principal"] + taken
        /\ frame'[r].left["principal"] = frame[r].left["principal"] - taken
    <3> DEFINE x == LoanOf(r)
    <3>1. /\ n \in Active(schedule[x]) /\ Active(schedule'[x]) = Active(schedule[x])
          /\ \A k \in DOMAIN schedule[x] \ {n} : schedule'[x][k] = schedule[x][k]
          /\ schedule'[x][n].paid["principal"] =
                schedule[x][n].paid["principal"]
                  + Lesser(frame[r].left["principal"], PrincipalOf(schedule[x])[n])
          /\ frame'[r].left["principal"] =
                frame[r].left["principal"]
                  - Lesser(frame[r].left["principal"], PrincipalOf(schedule[x])[n])
      BY <1>7, TurnEffect
    <3>2. x = l
      OBVIOUS
    <3> HIDE DEF x
    <3>3. QED
      BY <2>1, <3>1, <3>2
  <2>3. RowsSound(schedule[l]) /\ RowsSound(schedule'[l]) /\ Later(schedule[l], schedule'[l])
    BY <1>1, LoanRows DEF Serial
  <2>4. n \in DOMAIN schedule[l] /\ Active(schedule[l]) \subseteq DOMAIN schedule[l]
    BY <2>2 DEF Active
  <2>5. PICK old, new : old = schedule[l] /\ new = schedule'[l]
    OBVIOUS
  <2>6. /\ new[n].paid["principal"] \in Int /\ old[n].paid["principal"] \in Int
        /\ OutstandingPrincipal(new) =
             OutstandingPrincipal(old) - (new[n].paid["principal"] - old[n].paid["principal"])
    <3>1. /\ RowsSound(old) /\ RowsSound(new) /\ Active(new) = Active(old)
          /\ n \in Active(old) /\ new[n].due = old[n].due
          /\ \A k \in Active(old) \ {n} : new[k] = old[k]
      BY <2>2, <2>3, <2>4, <2>5 DEF Later
    <3>2. QED
      BY ONLY <3>1, PrincipalPaid, LoanServicingAssumption
  <2>7. taken \in Int
    <3>1. PrincipalOf(schedule[l])[n] \in Nat
      BY <2>2, <2>3, OutstandingIs
    <3>2. QED
      BY <1>5, <2>1, <3>1 DEF Lesser
  <2>8. OutstandingPrincipal(new) = OutstandingPrincipal(old) - taken
    BY <2>2, <2>5, <2>6, <2>7
  <2>9. Writing(r, l)' /\ Behind(r)' = frame[r].left["principal"] - taken
    BY <1>2, <1>3, <1>7, <2>2 DEF Writing, Behind, LoanOf
  <2>10. OutstandingPrincipal(schedule[l])' = OutstandingPrincipal(new)
    BY <2>5 DEF OutstandingPrincipal, Active, Outstanding
  <2>11. state[l] # "APPROVED" =>
           OutstandingPrincipal(new) = Lent(l) + (frame[r].left["principal"] - taken)
    BY <1>4, <1>5, <2>5, <2>7, <2>8
  <2>12. QED
    BY <1>2, <1>3, <2>9, <2>10, <2>11 DEF BookedAs
<1>8. QED
  BY <1>6, <1>7 DEF UpdateItem, Turn
-----------------------------------------------------------------------------
LEMMA BookedWaive ==
    ASSUME NEW r, Acts(r), NEW l \in Loan, l = LoanOf(r), BookedAs(r, l), WaiveItem(r)
    PROVE  BookedAs(r, l)'
<1>1. /\ r \in Request /\ Serial /\ TypeOK /\ HandlerInv /\ SerialInv /\ [Next]_vars
      /\ FrameInv(r) /\ frame[r] \in Frame /\ command[r] \in Instruction
      /\ pc \in [Request -> {"idle"} \cup Step \cup Finished]
      /\ schedule \in [Loan -> Seq(ItemRow)]
  BY ActorFacts DEF Acts, TypeOK, Next, WaiveItem, Step, WaiveStep
<1>2. /\ pc[r] = "waiving" /\ pc'[r] = "audit" /\ UNCHANGED <<repayments, state>>
  BY <1>1 DEF WaiveItem, Goto
<1>3. CASE UNCHANGED schedule
  BY <1>2, <1>3, BookedSame, NotWriting
<1>4. CASE ~UNCHANGED schedule
  <2>1. PICK n : n = command[r].item
    OBVIOUS
  <2>2. PICK columns : columns = Waived(frame[r].items[n], command[r].amount)
    OBVIOUS
  <2>3. PICK kept : kept = schedule[l][n].paid["principal"]
    OBVIOUS
  <2>4. /\ WaivesItem(r)
        /\ WriteItem(l, n, [columns EXCEPT !.paid["principal"] = kept])
    BY <1>4, <2>1, <2>2, <2>3 DEF WaiveItem
  <2>5. n \in DOMAIN schedule[l] /\ n \in DOMAIN frame[r].items
    BY <1>1, <2>1, <2>4 DEF WaivesItem, Active, FrameInv
  <2>6. Active(schedule'[l]) = Active(schedule[l])
    BY <1>1, SerialSchedule
  <2>7. RowsSound(schedule[l]) /\ RowsSound(schedule'[l]) /\ Later(schedule[l], schedule'[l])
    BY <1>1, LoanRows DEF Serial
  <2>8. [columns EXCEPT !.paid["principal"] = kept].paid["principal"] = kept
    <3>1. frame[r].items[n] \in ItemRow /\ AddsUp(frame[r].items[n]) /\ command[r].amount \in Nat
      <4>1. command[r].op = "waive"
        BY <1>1, <1>2, OwnCommand DEF Step, WaiveStep
      <4>2. QED
        BY <1>1, <2>5, <4>1, InstructionFacts DEF Frame, FrameInv, Waive
    <3>2. columns.paid \in [Part -> Int]
      BY <2>2, <3>1, WaivedAddsUp
    <3>3. columns = [paid |-> columns.paid, status |-> columns.status]
      BY <2>2 DEF Waived
    <3>4. QED
      BY <3>2, <3>3 DEF Part
  <2>9. PICK new : new = [columns EXCEPT !.paid["principal"] = kept]
    OBVIOUS
  <2>10. WriteItem(l, n, new) /\ new.paid["principal"] = kept
    BY <2>4, <2>8, <2>9
  <2>11. schedule'[l] = [schedule[l] EXCEPT ![n] =
             [schedule[l][n] EXCEPT !.paid = new.paid, !.status = new.status]]
    BY <1>1, <2>10 DEF WriteItem
  <2>12. /\ \A k \in DOMAIN schedule[l] \ {n} : schedule'[l][k] = schedule[l][k]
         /\ schedule'[l][n].paid = new.paid
    <3>1. schedule[l][n] \in ItemRow
      BY <1>1, <2>5
    <3>2. PICK row : row = [schedule[l][n] EXCEPT !.paid = new.paid, !.status = new.status]
      OBVIOUS
    <3>3. row.paid = new.paid
      BY <3>1, <3>2 DEF ItemRow
    <3>4. schedule'[l] = [schedule[l] EXCEPT ![n] = row]
      BY <2>11, <3>2
    <3>5. QED
      BY <1>1, <2>5, <3>3, <3>4
  <2>13. \A k \in Active(schedule[l]) :
            /\ schedule'[l][k].due = schedule[l][k].due
            /\ schedule'[l][k].paid["principal"] = schedule[l][k].paid["principal"]
    <3>1. Active(schedule[l]) \subseteq DOMAIN schedule[l]
      BY DEF Active
    <3>2. QED
      BY <2>3, <2>7, <2>10, <2>12, <3>1 DEF Later
  <2>14. OutstandingPrincipal(schedule'[l]) = OutstandingPrincipal(schedule[l])
    BY <2>6, <2>7, <2>13, SamePrincipal
  <2>15. Lent(l)' = Lent(l)
    BY <1>2, LentSame
  <2>16. OutstandingPrincipal(schedule[l])' = OutstandingPrincipal(schedule[l])
    BY <2>14 DEF OutstandingPrincipal, Active, Outstanding
  <2>17. QED
    BY <1>2, <2>15, <2>16, NotWriting DEF BookedAs
<1>5. QED
  BY <1>3, <1>4

LEMMA BookedSupersede ==
    ASSUME NEW r, Acts(r), Kept, NEW l \in Loan, l = LoanOf(r), BookedAs(r, l), Reads(r),
           Supersede(r)
    PROVE  BookedAs(r, l)'
<1>1. /\ r \in Request /\ Serial /\ [Next]_vars
      /\ pc \in [Request -> {"idle"} \cup Step \cup Finished]
      /\ schedule \in [Loan -> Seq(ItemRow)]
  BY ActorFacts DEF Acts, TypeOK, Next
<1>2. /\ pc[r] = "superseding" /\ pc'[r] = "creating"
      /\ UNCHANGED <<repayments, state, command, frame>>
      /\ schedule'[l] = Superseded(schedule[l], r)
  BY <1>1 DEF Supersede, Goto
<1>3. RowsSound(schedule[l]) /\ RowsSound(schedule'[l])
  BY <1>1, LoanRows DEF Serial
<1>4. OutstandingPrincipal(schedule'[l]) = 0
  BY <1>1, <1>2, <1>3, SupersededNone, NothingOutstanding
<1>5. frame[r].items = schedule[l]
  BY <1>2 DEF Reads
<1>6. Lent(l)' = Lent(l) /\ Lent(l) \in Int
  BY <1>2, LentSame, LentType
<1>7. state[l] # "APPROVED" => OutstandingPrincipal(schedule[l]) = Lent(l)
  BY <1>2, NotWriting DEF BookedAs
<1>8. Writing(r, l)' /\ Behind(r)' = 0 - OutstandingPrincipal(schedule[l])
  BY <1>2, <1>5 DEF Writing, Behind, LoanOf
<1>9. OutstandingPrincipal(schedule[l])' = 0
  BY <1>4 DEF OutstandingPrincipal, Active, Outstanding
<1>10. state[l] # "APPROVED" => 0 = Lent(l) + (0 - OutstandingPrincipal(schedule[l]))
  BY <1>6, <1>7
<1>11. QED
  BY <1>2, <1>6, <1>8, <1>9, <1>10 DEF BookedAs

LEMMA BookedCreate ==
    ASSUME NEW r, Acts(r), Kept, NEW l \in Loan, l = LoanOf(r), BookedAs(r, l), Writes(r),
           CreateItems(r)
    PROVE  BookedAs(r, l)'
<1>1. /\ r \in Request /\ Serial /\ TypeOK /\ HandlerInv /\ [Next]_vars /\ FrameInv(r)
      /\ command[r] \in Instruction
      /\ pc \in [Request -> {"idle"} \cup Step \cup Finished]
      /\ schedule \in [Loan -> Seq(ItemRow)]
  BY ActorFacts DEF Acts, TypeOK, Next, CreateItems, Step, RescheduleStep
<1>2. pc[r] = "creating" /\ UNCHANGED <<repayments, state, command>>
  BY DEF CreateItems
<1>3. Len(schedule[l]) = Len(frame[r].items) /\ Active(schedule[l]) = {}
  BY <1>2 DEF Writes
<1>4. schedule' = [schedule EXCEPT ![LoanOf(r)] = @ \o NewItems(r)] /\ Goto(r, "marking")
  BY <1>3 DEF CreateItems
<1>5. pc'[r] = "marking" /\ schedule'[l] = schedule[l] \o NewItems(r)
  BY <1>1, <1>4 DEF Goto
<1>6. PICK owed : owed = OutstandingPrincipal(frame[r].items)
  OBVIOUS
<1>7. owed \in Nat /\ command[r].terms \in Nat \ {0}
  <2>1. command[r].op = "reschedule"
    BY <1>1, <1>2, OwnCommand DEF Step, RescheduleStep
  <2>2. command[r].terms \in Int
    BY <1>1, <2>1, InstructionFacts DEF Reschedule
  <2>3. command[r].terms >= 1 /\ owed \in Nat \ {0}
    BY <1>1, <1>2, <1>6 DEF FrameInv, RescheduleStep
  <2>4. QED
    BY <2>2, <2>3
<1>8. RowsSound(NewItems(r)) /\ OutstandingPrincipal(NewItems(r)) = owed
  BY <1>6, <1>7, LoanFacts, GeneratedPrincipal DEF NewItems
<1>9. RowsSound(schedule[l])
  BY <1>1, LoanRows DEF Serial
<1>10. OutstandingPrincipal(schedule'[l]) = owed
  BY <1>3, <1>5, <1>8, <1>9, AppendedPrincipal
<1>11. OutstandingPrincipal(schedule[l]) = 0
  BY <1>3, <1>9, NothingOutstanding
<1>12. Lent(l)' = Lent(l) /\ Lent(l) \in Int
  BY <1>2, LentSame, LentType
<1>13. Writing(r, l) /\ Behind(r) = 0 - owed
  BY <1>2, <1>6 DEF Writing, Behind
<1>14. state[l] # "APPROVED" => owed = Lent(l)
  <2>1. state[l] # "APPROVED" => 0 = Lent(l) + (0 - owed)
    BY <1>11, <1>13 DEF BookedAs
  <2>2. QED
    BY <1>7, <1>12, <2>1
<1>15. OutstandingPrincipal(schedule[l])' = owed
  BY <1>10 DEF OutstandingPrincipal, Active, Outstanding
<1>16. QED
  BY <1>2, <1>5, <1>12, <1>14, <1>15, NotWriting DEF BookedAs

LEMMA BookedStep ==
    ASSUME NEW r, Acts(r), Kept, Reads(r), Writes(r), NEW l \in Loan, Unlent(l), Booked(l)
    PROVE  Booked(l)'
<1>1. BookedAs(r, l)
  BY BookedAlone
<1>2. CASE \/ Activate(r) \/ InsertRepayment(r) \/ ReadSchedule(r) \/ UpdateItem(r)
           \/ WaiveItem(r) \/ Supersede(r) \/ CreateItems(r)
  <2>1. CASE l = LoanOf(r)
    BY <1>1, <1>2, <2>1, BookedActivate, BookedInsert, BookedRead, BookedUpdate, BookedWaive,
       BookedSupersede, BookedCreate, BookedAlone
  <2>2. CASE l # LoanOf(r)
    BY <1>1, <1>2, <2>2, BookedOther, BookedAlone
  <2>3. QED
    BY <2>1, <2>2
<1>3. CASE \/ Arrive(r) \/ TurnedAway(r) \/ LoanRefused(r) \/ LedgerStep(r) \/ LedgerRefused(r)
           \/ ReadForDisbursement(r) \/ ReadForRepayment(r) \/ CheckEvidence(r)
           \/ LookupRepayment(r) \/ CountUnpaid(r) \/ Complete(r) \/ ReadForException(r)
           \/ InsertException(r) \/ MarkRescheduled(r) \/ AppendAudit(r)
  BY <1>1, <1>3, BookedQuiet, BookedAlone
<1>4. Arrive(r) \/ Advance(r)
  BY DEF Acts
<1>5. QED
  BY <1>2, <1>3, <1>4 DEF Advance, Disbursement, Repayment, Rescheduling
-----------------------------------------------------------------------------
\* The settled events of a tenant are those whose request has recorded them.
Settled(t) == {e \in LP!Ids(events) : events[e].tenant = t /\ ~Entered(e)}

PaidOut(t, m) == {l \in LoansOf(t, m) : state[l] # "APPROVED"}

LentBy == [l \in Loan |-> Lent(l)]

SettledSum(t, m) == SumFunctionOnSet(PrincipalLines(m), Settled(t))

LentSum(t, m) == SumFunctionOnSet(LentBy, PaidOut(t, m))

Settles(t, m) == SettledSum(t, m) = LentSum(t, m)

LEMMA SettledType ==
    ASSUME Serial, Kept, NEW t, NEW m
    PROVE  /\ IsFiniteSet(Settled(t)) /\ Settled(t) \subseteq LP!Ids(events)
           /\ \A e \in LP!Ids(events) : PrincipalLines(m)[e] \in Int
           /\ SettledSum(t, m) \in Int
<1>1. IsFiniteSet(Settled(t)) /\ Settled(t) \subseteq LP!Ids(events)
  BY FS_Subset DEF Settled, Kept
<1>2. ASSUME NEW e \in LP!Ids(events) PROVE PrincipalLines(m)[e] \in Int
  <2>1. e \in Request /\ events[e].lines \in Seq(LedgerLine)
    <3>1. e \in Request /\ events[e] \in LP!EventRow(Request)
      BY DEF LP!Ids, Serial, IInv, LedgerInv, LP!TypeOK
    <3>2. LP!Line = LedgerLine
      BY DEF LP!Line, LedgerLine
    <3>3. QED
      BY <3>1, <3>2 DEF LP!EventRow
  <2>2. QED
    BY <2>1, LineSumIs DEF PrincipalLines
<1>3. SettledSum(t, m) \in Int
  BY <1>1, <1>2, SumType DEF SettledSum
<1>4. QED
  BY <1>1, <1>2, <1>3

LEMMA LentSumType ==
    ASSUME Kept, NEW t, NEW m
    PROVE  /\ IsFiniteSet(PaidOut(t, m)) /\ PaidOut(t, m) \subseteq Loan
           /\ \A l \in Loan : LentBy[l] = Lent(l) /\ LentBy[l] \in Int
           /\ LentSum(t, m) \in Int
<1>1. PaidOut(t, m) \subseteq PaidOutLoans /\ PaidOut(t, m) \subseteq Loan
  BY DEF PaidOut, PaidOutLoans, LoansOf
<1>2. IsFiniteSet(PaidOut(t, m))
  BY <1>1, FS_Subset DEF Kept
<1>3. \A l \in Loan : LentBy[l] = Lent(l) /\ LentBy[l] \in Int
  BY LentType DEF LentBy
<1>4. LentSum(t, m) \in Int
  BY <1>1, <1>2, <1>3, SumType DEF LentSum
<1>5. QED
  BY <1>1, <1>2, <1>3, <1>4

\* An old event is not entered again.
LEMMA EnteredBefore ==
    ASSUME NEW r, Acts(r), \A e \in LP!Ids(events) : Accounted(e), Calls(r), Reads(r),
           NEW e \in LP!Ids(events), Entered(e)'
    PROVE  Entered(e)
<1>0. /\ r \in Request /\ Serial /\ e \in Request /\ TypeOK
      /\ pc \in [Request -> {"idle"} \cup Step \cup Finished]
  BY ActorFacts, OldEvent DEF Acts, TypeOK, LP!Ids, Serial, IInv, LedgerInv, LP!TypeOK
<1>1. e = r
  BY <1>0, EnteredActs
<1>2. pc'[r] = "posting" /\ ledgerPc'[r] \in {"audit", "done"} /\ events[r] # NoEvent
  BY <1>1 DEF Entered, LP!Ids
<1>3. CASE LedgerStep(r)
  <2>1. pc[r] = "posting" /\ ledgerPc[r] = "audit"
    BY <1>0, <1>2, <1>3, LedgerMoves DEF LedgerStep
  <2>2. QED
    BY <1>1, <2>1 DEF Entered
<1>4. ASSUME NEW c, Ledger!StartPost(r, c) PROVE FALSE
  BY <1>0, <1>1, <1>4, NotEntered
<1>5. CASE ~LedgerStep(r)
  <2>1. CASE ReadForDisbursement(r) \/ LookupRepayment(r)
    <3>1. CASE Leave(r, "refused") \/ Leave(r, "done")
      BY <1>0, <1>2, <3>1 DEF Leave, Goto
    <3>2. QED
      BY <1>4, <2>1, <3>1 DEF ReadForDisbursement, LookupRepayment
  <2>2. CASE ~(ReadForDisbursement(r) \/ LookupRepayment(r))
    <3>1. CASE UpdateItem(r)
      BY <1>0, <1>2, <3>1 DEF UpdateItem, Goto
    <3>2. CASE ~UpdateItem(r)
      <4>1. \E s \in Step \cup Finished : s # "posting" /\ Goto(r, s)
        BY <1>5, <2>2, <3>2 DEF Acts, Arrive, Advance, TurnedAway, LoanRefused, LedgerRefused,
           Disbursement, Activate, Repayment, ReadForRepayment, CheckEvidence, InsertRepayment,
           ReadSchedule, CountUnpaid, Complete, ReadForException, InsertException, WaiveItem,
           Rescheduling, Supersede, CreateItems, MarkRescheduled, AppendAudit, Leave, Finished,
           Refusal, Step, RepayStep, WaiveStep, RescheduleStep
      <4>2. QED
        BY <1>0, <1>2, <4>1 DEF Goto
    <3>3. QED
      BY <3>1, <3>2
  <2>3. QED
    BY <2>1, <2>2
<1>6. QED
  BY <1>3, <1>5

\* Steps that record nothing.
LEMMA SettlesSame ==
    ASSUME NEW r, Acts(r), Kept, \A e \in LP!Ids(events) : Accounted(e), Calls(r), Reads(r),
           UNCHANGED repayments, ~Activate(r), NEW t, NEW m \in Member, Settles(t, m)
    PROVE  Settles(t, m)'
<1>0. /\ r \in Request /\ Serial /\ TypeOK /\ HandlerInv /\ LedgerInv /\ [Next]_vars
      /\ Alone
  BY DEF Acts, Serial, IInv, SerialInv, Next
<1>1. ~InsertRepayment(r) \/ ~(repayments' = [repayments EXCEPT ![r] = NewRepayment(r)])
  <2>1. ASSUME InsertRepayment(r), repayments' = [repayments EXCEPT ![r] = NewRepayment(r)]
        PROVE  FALSE
    <3>1. r \in Stored' /\ r \notin Stored
      BY <1>0, <2>1, StoredNew
    <3>2. QED
      BY <3>1 DEF Stored
  <2>2. QED
    BY <2>1
<1>2. ASSUME NEW e \in LP!Ids(events), Entered(e) PROVE Entered(e)'
  <2>1. e = r
    BY <1>0, <1>2, OldEvent, EnteredActs
  <2>2. QED
    BY <1>1, <1>2, <2>1, Recording
<1>3. Settled(t)' = Settled(t)
  <2>1. ASSUME NEW e \in Settled(t)' PROVE e \in Settled(t)
    <3>1. e \in LP!Ids(events)' /\ events'[e].tenant = t /\ ~Entered(e)'
      BY DEF Settled
    <3>2. e \in LP!Ids(events)
      BY <3>1, NewEvent
    <3>3. ~Entered(e) /\ events'[e] = events[e]
      BY <1>0, <1>2, <3>1, <3>2, OldEvent
    <3>4. QED
      BY <3>1, <3>2, <3>3 DEF Settled
  <2>2. ASSUME NEW e \in Settled(t) PROVE e \in Settled(t)'
    <3>1. e \in LP!Ids(events) /\ events[e].tenant = t /\ ~Entered(e)
      BY DEF Settled
    <3>2. e \in LP!Ids(events)' /\ events'[e] = events[e] /\ ~Entered(e)'
      BY <1>0, <3>1, OldEvent, EnteredBefore
    <3>3. QED
      BY <3>1, <3>2 DEF Settled
  <2>3. QED
    BY <2>1, <2>2
<1>4. SettledSum(t, m)' = SettledSum(t, m)
  <2>1. IsFiniteSet(Settled(t)) /\ Settled(t) \subseteq LP!Ids(events)
    BY <1>0, SettledType
  <2>2. \A e \in Settled(t) : PrincipalLines(m)'[e] = PrincipalLines(m)[e]
    BY <1>0, <2>1, OldEvent
  <2>3. SumFunctionOnSet(PrincipalLines(m)', Settled(t)) =
          SumFunctionOnSet(PrincipalLines(m), Settled(t))
    BY <2>1, <2>2, SumSame
  <2>4. QED
    BY <1>3, <2>3 DEF SettledSum
<1>5. \A l \in Loan : state'[l] = "APPROVED" <=> state[l] = "APPROVED"
  <2>1. ASSUME NEW l \in Loan, state[l] = "APPROVED", state'[l] # "APPROVED" PROVE FALSE
    <3>1. PICK q \in Request : Activate(q)
      BY <1>0, <2>1, StateMove
    <3>2. q # r /\ pc[q] \in Step
      BY <3>1 DEF Activate, Step
    <3>3. QED
      BY <1>0, <3>2, OthersIdle DEF Acts
  <2>2. QED
    BY <1>0, <2>1, StateStep
<1>6. PaidOut(t, m)' = PaidOut(t, m)
  BY <1>5 DEF PaidOut, LoansOf
<1>7. LentBy' = LentBy
  BY LentSame DEF LentBy
<1>8. QED
  BY <1>4, <1>6, <1>7 DEF Settles, LentSum
-----------------------------------------------------------------------------
\* A step in which r records its event adds the entry to one tenant's member.
Recorded(r) ==
    /\ Entered(r) /\ ~Entered(r)' /\ UNCHANGED events

Added(r, t, m) ==
    IF Contract[LoanOf(r)].tenant = t /\ Contract[LoanOf(r)].borrower = m THEN EntryOf(r) ELSE 0

LEMMA SettledAdds ==
    ASSUME NEW r, Acts(r), Kept, Calls(r), Reads(r), Recorded(r),
           NEW t, NEW m \in Member
    PROVE  SettledSum(t, m)' = SettledSum(t, m) + Added(r, t, m)
<1>0. r \in Request /\ Serial
  BY DEF Acts
<1>1. /\ r \in LP!Ids(events) /\ events[r].tenant = Contract[LoanOf(r)].tenant
      /\ PrincipalLines(m)[r] = IF m = Contract[LoanOf(r)].borrower THEN EntryOf(r) ELSE 0
      /\ EntryOf(r) \in Int
  BY <1>0, EnteredRow DEF Recorded
<1>2. /\ IsFiniteSet(Settled(t)) /\ Settled(t) \subseteq LP!Ids(events)
      /\ \A e \in LP!Ids(events) : PrincipalLines(m)[e] \in Int
      /\ SettledSum(t, m) \in Int
  BY <1>0, SettledType
<1>3. PrincipalLines(m)' = PrincipalLines(m) /\ LP!Ids(events)' = LP!Ids(events)
  BY DEF Recorded, PrincipalLines, LP!Ids
<1>4. \A e \in LP!Ids(events) : e # r => ~Entered(e) /\ ~Entered(e)'
  <2>1. LP!Ids(events) \subseteq Request
    BY <1>0 DEF LP!Ids, Serial, IInv, LedgerInv, LP!TypeOK
  <2>2. QED
    BY <2>1, EnteredActs
<1>5. r \notin Settled(t)
  BY DEF Settled, Recorded
<1>6. SettledSum(t, m)' = SumFunctionOnSet(PrincipalLines(m), Settled(t)')
  BY <1>3 DEF SettledSum
<1>7. CASE events[r].tenant # t
  <2>1. Settled(t)' = Settled(t)
    BY <1>3, <1>4, <1>7 DEF Settled, Recorded
  <2>2. Added(r, t, m) = 0
    BY <1>1, <1>7 DEF Added
  <2>3. QED
    BY <1>2, <1>6, <2>1, <2>2 DEF SettledSum
<1>8. CASE events[r].tenant = t
  <2>1. Settled(t)' = Settled(t) \cup {r}
    BY <1>1, <1>3, <1>4, <1>8 DEF Settled, Recorded
  <2>2. Added(r, t, m) = PrincipalLines(m)[r] /\ PrincipalLines(m)[r] \in Int
    BY <1>1, <1>8 DEF Added
  <2>3. SumFunctionOnSet(PrincipalLines(m), Settled(t) \cup {r}) =
          SumFunctionOnSet(PrincipalLines(m), Settled(t)) + PrincipalLines(m)[r]
    <3>1. PICK S, f : S = Settled(t) /\ f = PrincipalLines(m)
      OBVIOUS
    <3>2. /\ IsFiniteSet(S) /\ r \notin S /\ f[r] \in Int
          /\ \A y \in S : f[y] \in Int /\ f[y] = f[y]
      BY <1>2, <1>5, <2>2, <3>1
    <3>3. SumFunctionOnSet(f, S \cup {r}) = SumFunctionOnSet(f, S) + f[r]
      BY ONLY <3>2, SumAdd
    <3>4. QED
      BY <3>1, <3>3
  <2>4. QED
    BY <1>6, <2>1, <2>2, <2>3 DEF SettledSum
<1>9. QED
  BY <1>7, <1>8

LEMMA LentAddsDisbursed ==
    ASSUME NEW r, Acts(r), Kept, Activate(r), NEW t, NEW m
    PROVE  LentSum(t, m)' = LentSum(t, m) + Added(r, t, m)
<1>1. /\ r \in Request /\ TypeOK /\ Found(r) /\ LoanOf(r) \in Loan
      /\ state \in [Loan -> LoanState]
  BY ActorFacts DEF Acts, Activate, Step, TypeOK
<1>2. /\ pc[r] = "posting" /\ command[r].op = "disburse" /\ UNCHANGED repayments
      /\ state' = [state EXCEPT ![LoanOf(r)] = "ACTIVE"]
  BY DEF Activate
<1>3. PICK l \in Loan : l = LoanOf(r)
  BY <1>1
<1>4. state[l] = "APPROVED"
  BY <1>1, <1>2, <1>3 DEF Found, StateWanted, Step
<1>5. Lent(l) = Contract[l].principal /\ Lent(l) \in Int
  <2>1. RepaymentsOf(l) = {}
    BY <1>4 DEF Kept, PaidOutLoans, RepaymentsOf
  <2>2. SumFunctionOnSet(PrincipalRepaid, RepaymentsOf(l)) = 0
    BY <2>1, SumEmpty
  <2>3. QED
    BY <2>2, LoanFacts DEF Lent
<1>6. EntryOf(r) = Lent(l)
  BY <1>2, <1>3, <1>5 DEF EntryOf
<1>7. /\ IsFiniteSet(PaidOut(t, m)) /\ PaidOut(t, m) \subseteq Loan
      /\ \A x \in Loan : LentBy[x] = Lent(x) /\ LentBy[x] \in Int
      /\ LentSum(t, m) \in Int
  BY LentSumType
<1>8. LentBy' = LentBy
  BY <1>2, LentSame DEF LentBy
<1>9. LentSum(t, m)' = SumFunctionOnSet(LentBy, PaidOut(t, m)')
  BY <1>8 DEF LentSum
<1>10. CASE Contract[l].tenant = t /\ Contract[l].borrower = m
  <2>1. PaidOut(t, m)' = PaidOut(t, m) \cup {l} /\ l \notin PaidOut(t, m)
    BY <1>1, <1>2, <1>3, <1>4, <1>10 DEF PaidOut, LoansOf
  <2>2. SumFunctionOnSet(LentBy, PaidOut(t, m) \cup {l}) =
          SumFunctionOnSet(LentBy, PaidOut(t, m)) + LentBy[l]
    <3>1. PICK S, f : S = PaidOut(t, m) /\ f = LentBy
      OBVIOUS
    <3>2. /\ IsFiniteSet(S) /\ l \notin S /\ f[l] \in Int
          /\ \A y \in S : f[y] \in Int /\ f[y] = f[y]
      BY <1>7, <2>1, <3>1
    <3>3. SumFunctionOnSet(f, S \cup {l}) = SumFunctionOnSet(f, S) + f[l]
      BY ONLY <3>2, SumAdd
    <3>4. QED
      BY <3>1, <3>3
  <2>3. Added(r, t, m) = LentBy[l]
    BY <1>3, <1>6, <1>7, <1>10 DEF Added
  <2>4. QED
    BY <1>9, <2>1, <2>2, <2>3 DEF LentSum
<1>11. CASE ~(Contract[l].tenant = t /\ Contract[l].borrower = m)
  <2>1. PaidOut(t, m)' = PaidOut(t, m)
    BY <1>1, <1>2, <1>3, <1>11 DEF PaidOut, LoansOf
  <2>2. Added(r, t, m) = 0
    BY <1>3, <1>11 DEF Added
  <2>3. QED
    BY <1>7, <1>9, <2>1, <2>2 DEF LentSum
<1>12. QED
  BY <1>10, <1>11

LEMMA LentAddsRepaid ==
    ASSUME NEW r, Acts(r), Kept, InsertRepayment(r),
           repayments' = [repayments EXCEPT ![r] = NewRepayment(r)], NEW t, NEW m
    PROVE  LentSum(t, m)' = LentSum(t, m) + Added(r, t, m)
<1>1. /\ r \in Request /\ Serial /\ TypeOK /\ Found(r) /\ LoanOf(r) \in Loan /\ [Next]_vars
      /\ frame[r].left["principal"] \in Int
  BY ActorFacts DEF Acts, InsertRepayment, Step, TypeOK, Frame, Part, Next
<1>2. pc[r] = "posting" /\ command[r].op = "repay" /\ UNCHANGED state
  BY DEF InsertRepayment
<1>3. PICK l \in Loan : l = LoanOf(r)
  BY <1>1
<1>4. state[l] # "APPROVED"
  BY <1>1, <1>2, <1>3 DEF Found, StateWanted, Step
<1>5. EntryOf(r) = 0 - frame[r].left["principal"]
  BY <1>2 DEF EntryOf
<1>6. /\ IsFiniteSet(PaidOut(t, m)) /\ PaidOut(t, m) \subseteq Loan
      /\ \A x \in Loan : LentBy[x] = Lent(x) /\ LentBy[x] \in Int
      /\ LentSum(t, m) \in Int
  BY LentSumType
<1>7. \A x \in Loan :
         LentBy'[x] = IF x = l THEN Lent(x) - frame[r].left["principal"] ELSE Lent(x)
  BY <1>1, <1>3, LentStep DEF LentBy
<1>8. LentSum(t, m)' = SumFunctionOnSet(LentBy', PaidOut(t, m))
  <2>1. PaidOut(t, m)' = PaidOut(t, m)
    BY <1>2 DEF PaidOut, LoansOf
  <2>2. QED
    BY <2>1 DEF LentSum
<1>9. PICK S, f, g : S = PaidOut(t, m) /\ f = LentBy /\ g = LentBy'
  OBVIOUS
<1>10. /\ IsFiniteSet(S) /\ \A x \in S : f[x] \in Int /\ g[x] \in Int
       /\ \A x \in S \ {l} : g[x] = f[x]
       /\ g[l] = f[l] - frame[r].left["principal"] /\ f[l] \in Int
  BY <1>1, <1>6, <1>7, <1>9
<1>11. CASE l \in S
  <2>1. /\ SumFunctionOnSet(g, S) = SumFunctionOnSet(f, S) + g[l] - f[l]
        /\ SumFunctionOnSet(f, S) \in Int
    <3>1. /\ IsFiniteSet(S) /\ l \in S /\ \A y \in S : f[y] \in Int /\ g[y] \in Int
          /\ \A y \in S \ {l} : g[y] = f[y]
      BY <1>10, <1>11
    <3>2. QED
      BY ONLY <3>1, SumChange
  <2>2. Added(r, t, m) = 0 - frame[r].left["principal"]
    BY <1>3, <1>5, <1>9, <1>11 DEF Added, PaidOut, LoansOf
  <2>3. SumFunctionOnSet(g, S) = SumFunctionOnSet(f, S) + (0 - frame[r].left["principal"])
    BY <1>1, <1>10, <2>1
  <2>4. QED
    BY <1>8, <1>9, <2>2, <2>3 DEF LentSum
<1>12. CASE l \notin S
  <2>1. SumFunctionOnSet(g, S) = SumFunctionOnSet(f, S)
    BY <1>10, <1>12, SumSame
  <2>2. Added(r, t, m) = 0
    BY <1>3, <1>4, <1>9, <1>12 DEF Added, PaidOut, LoansOf
  <2>3. QED
    BY <1>6, <1>8, <1>9, <2>1, <2>2 DEF LentSum
<1>13. QED
  BY <1>11, <1>12
-----------------------------------------------------------------------------
LEMMA SettlesStep ==
    ASSUME NEW r, Acts(r), Kept, \A e \in LP!Ids(events) : Accounted(e), Calls(r), Reads(r),
           NEW t, NEW m \in Member, Settles(t, m)
    PROVE  Settles(t, m)'
<1>0. /\ r \in Request /\ Serial /\ TypeOK /\ LedgerInv /\ Alone /\ [Next]_vars
      /\ pc \in [Request -> {"idle"} \cup Step \cup Finished]
      /\ SettledSum(t, m) \in Int /\ LentSum(t, m) \in Int
  BY SettledType, LentSumType DEF Acts, Serial, IInv, SerialInv, TypeOK, Next
<1>1. ASSUME pc[r] = "posting", ledgerPc[r] = "done", UNCHANGED events, pc'[r] # "posting"
      PROVE  Recorded(r)
  BY <1>1 DEF Recorded, Entered
<1>2. CASE Activate(r)
  <2>1. Recorded(r)
    BY <1>0, <1>1, <1>2 DEF Activate, LedgerReturned, Goto, ledgerVars
  <2>2. /\ SettledSum(t, m)' = SettledSum(t, m) + Added(r, t, m)
        /\ LentSum(t, m)' = LentSum(t, m) + Added(r, t, m)
    BY <1>2, <2>1, SettledAdds, LentAddsDisbursed
  <2>3. QED
    BY <2>2 DEF Settles
<1>3. CASE ~UNCHANGED repayments
  <2>1. PICK q \in Request : /\ InsertRepayment(q)
                             /\ repayments' = [repayments EXCEPT ![q] = NewRepayment(q)]
    BY <1>0, <1>3, RepaymentsStep
  <2>2. q = r
    <3>1. pc[q] \in Step
      BY <2>1 DEF InsertRepayment, Step
    <3>2. QED
      BY <1>0, <3>1, OthersIdle DEF Acts
  <2>3. InsertRepayment(r) /\ repayments' = [repayments EXCEPT ![r] = NewRepayment(r)]
    BY <2>1, <2>2
  <2>4. Recorded(r)
    BY <1>0, <1>1, <1>3, <2>3 DEF InsertRepayment, LedgerReturned, Goto, ledgerVars
  <2>5. /\ SettledSum(t, m)' = SettledSum(t, m) + Added(r, t, m)
        /\ LentSum(t, m)' = LentSum(t, m) + Added(r, t, m)
    BY <2>3, <2>4, SettledAdds, LentAddsRepaid
  <2>6. QED
    BY <2>5 DEF Settles
<1>4. CASE UNCHANGED repayments /\ ~Activate(r)
  BY <1>4, SettlesSame
<1>5. QED
  BY <1>2, <1>3, <1>4
-----------------------------------------------------------------------------
Debts ==
    /\ \A r \in Request : Calls(r) /\ Reads(r) /\ Writes(r)
    /\ \A e \in LP!Ids(events) : Accounted(e)
    /\ \A l \in Loan : Unlent(l) /\ Booked(l)
    /\ \A t \in Tenant, m \in Member : Settles(t, m)

DebtInv == Kept /\ (NoneDied => Debts)

LEMMA DebtInit == Init => DebtInv
<1> SUFFICES ASSUME Init PROVE DebtInv
  OBVIOUS
<1>1. LP!Ids(events) = {} /\ Stored = {} /\ PaidOutLoans = {}
  BY DEF Init, Ledger!Init, LP!Ids, Stored, PaidOutLoans
<1>2. Kept
  BY <1>1, FS_EmptySet DEF Kept
<1>3. ASSUME NEW r \in Request PROVE Calls(r) /\ Reads(r) /\ Writes(r)
  <2>1. pc[r] = "idle"
    BY DEF Init
  <2>2. QED
    BY <2>1 DEF Calls, Reads, Writes, Repays, Entered, Step, RepayStep, WaiveStep,
       RescheduleStep
<1>4. ASSUME NEW l \in Loan PROVE Unlent(l) /\ Booked(l)
  BY DEF Init, Unlent, Booked
<1>5. ASSUME NEW t \in Tenant, NEW m \in Member PROVE Settles(t, m)
  <2>1. Settled(t) = {} /\ PaidOut(t, m) = {}
    BY <1>1 DEF Settled, PaidOut, LoansOf, PaidOutLoans
  <2>2. SumFunctionOnSet(PrincipalLines(m), {}) = 0 /\ SumFunctionOnSet(LentBy, {}) = 0
    BY SumEmpty
  <2>3. QED
    BY <2>1, <2>2 DEF Settles, SettledSum, LentSum
<1>6. QED
  BY <1>1, <1>2, <1>3, <1>4, <1>5 DEF DebtInv, Debts

LEMMA DebtsStay == Debts /\ UNCHANGED vars => Debts'
<1> SUFFICES ASSUME Debts, UNCHANGED vars PROVE Debts'
  OBVIOUS
<1>1. UNCHANGED <<events, ledgerPc, ledgerCommand, state, schedule, repayments, pc, command,
                  frame>>
  BY DEF vars, ledgerVars, tables
<1>2. ASSUME NEW r \in Request PROVE (Calls(r) /\ Reads(r) /\ Writes(r))'
  <2>1. Calls(r) /\ Reads(r) /\ Writes(r)
    BY DEF Debts
  <2>2. CallOf(r)' = CallOf(r) /\ AllocationOf(r)' = AllocationOf(r) /\ LoanOf(r)' = LoanOf(r)
    BY <1>1, CallKept
  <2>3. WithKey(command[r].key)' = WithKey(command[r].key)
    BY <1>1 DEF WithKey, Stored
  <2>4. Calls(r)'
    BY <1>1, <2>1, <2>2, <2>3 DEF Calls, Entered
  <2>5. Reads(r)'
    BY <1>1, <2>1, <2>2 DEF Reads, Repays
  <2>6. Writes(r)'
    BY <1>1, <2>1, <2>2 DEF Writes, Active, PrincipalOf
  <2>7. QED
    BY <2>4, <2>5, <2>6
<1>3. \A m : PrincipalLines(m)' = PrincipalLines(m)
  BY <1>1 DEF PrincipalLines
<1>4. LP!Ids(events)' = LP!Ids(events) /\ \A e : Entered(e)' = Entered(e)
  BY <1>1 DEF LP!Ids, Entered
<1>5. ASSUME NEW e \in LP!Ids(events)' PROVE Accounted(e)'
  <2>1. Accounted(e)
    BY <1>4 DEF Debts
  <2>2. QED
    BY <1>1, <1>3, <1>4, <2>1 DEF Accounted, OnLoan, Stored, DisbursementKey
<1>6. ASSUME NEW l \in Loan PROVE (Unlent(l) /\ Booked(l))'
  <2>1. Unlent(l) /\ Booked(l)
    BY DEF Debts
  <2>2. Lent(l)' = Lent(l)
    BY <1>1, LentSame
  <2>3. \A r : (Writing(r, l)' <=> Writing(r, l)) /\ Behind(r)' = Behind(r)
    BY <1>1 DEF Writing, Behind, LoanOf, OutstandingPrincipal, Active, Outstanding
  <2>4. OutstandingPrincipal(schedule[l])' = OutstandingPrincipal(schedule[l])
    BY <1>1 DEF OutstandingPrincipal, Active, Outstanding
  <2>5. Unlent(l)'
    BY <1>1, <2>1 DEF Unlent
  <2>6. Booked(l)'
    BY <1>1, <2>1, <2>2, <2>3, <2>4 DEF Booked
  <2>7. QED
    BY <2>5, <2>6
<1>7. ASSUME NEW t \in Tenant, NEW m \in Member PROVE Settles(t, m)'
  <2>1. Settled(t)' = Settled(t) /\ PaidOut(t, m)' = PaidOut(t, m)
    BY <1>1, <1>4 DEF Settled, PaidOut, LoansOf
  <2>2. LentBy' = LentBy
    BY <1>1, LentSame DEF LentBy
  <2>3. QED
    BY <1>3, <2>1, <2>2 DEF Settles, SettledSum, LentSum, Debts
<1>8. QED
  BY <1>2, <1>5, <1>6, <1>7 DEF Debts

LEMMA DebtStep == MaxInFlight = 1 /\ Serial /\ DebtInv /\ [Next]_vars => DebtInv'
<1> SUFFICES ASSUME MaxInFlight = 1, Serial, DebtInv, [Next]_vars PROVE DebtInv'
  OBVIOUS
<1>1. Kept /\ Kept'
  BY KeptStep DEF DebtInv, Serial
<1>2. ASSUME NoneDied' PROVE Debts'
  <2>1. NoneDied /\ (UNCHANGED vars \/ \E r \in Request : Acts(r))
    BY <1>2, AliveStep
  <2>2. Debts
    BY <2>1 DEF DebtInv
  <2>3. CASE UNCHANGED vars
    BY <2>2, <2>3, DebtsStay
  <2>4. ASSUME NEW r \in Request, Acts(r) PROVE Debts'
    <3>1. /\ Calls(r) /\ Reads(r) /\ Writes(r) /\ \A e \in LP!Ids(events) : Accounted(e)
      BY <2>2 DEF Debts
    <3>2. ASSUME NEW q \in Request PROVE (Calls(q) /\ Reads(q) /\ Writes(q))'
      <4>1. CASE q = r
        BY <2>4, <3>1, <4>1, CallsStep, ReadsStep, WritesStep
      <4>2. CASE q # r
        <5>1. pc'[q] \notin Step
          BY <2>4, <4>2, OthersIdle DEF Acts, Serial, IInv, SerialInv
        <5>2. QED
          BY <5>1 DEF Calls, Reads, Writes, Repays, Entered, Step, RepayStep, WaiveStep,
             RescheduleStep
      <4>3. QED
        BY <4>1, <4>2
    <3>3. \A e \in LP!Ids(events)' : Accounted(e)'
      BY <1>1, <2>4, <3>1, AccountedStep
    <3>4. ASSUME NEW l \in Loan PROVE (Unlent(l) /\ Booked(l))'
      <4>1. Unlent(l) /\ Booked(l)
        BY <2>2 DEF Debts
      <4>2. Unlent(l)'
        BY <4>1, UnlentStep
      <4>3. Booked(l)'
        BY <1>1, <2>4, <3>1, <4>1, BookedStep
      <4>4. QED
        BY <4>2, <4>3
    <3>5. ASSUME NEW t \in Tenant, NEW m \in Member PROVE Settles(t, m)'
      <4>1. Settles(t, m)
        BY <2>2 DEF Debts
      <4>2. QED
        BY <1>1, <2>4, <3>1, <4>1, SettlesStep
    <3>6. QED
      BY <3>2, <3>3, <3>4, <3>5 DEF Debts
  <2>5. QED
    BY <2>1, <2>3, <2>4
<1>3. QED
  BY <1>1, <1>2 DEF DebtInv

LEMMA DebtInvariant ==
    ASSUME MaxInFlight = 1
    PROVE  Spec => [](Serial /\ DebtInv)
<1>1. MaxInFlight = 1 /\ Serial /\ DebtInv /\ [Next]_vars => DebtInv'
  BY DebtStep
<1>2. Spec => []Serial
  BY SerialInvariant, EveryRepaymentIsPosted, PTL DEF Serial
<1>3. QED
  BY <1>1, <1>2, DebtInit, PTL DEF Spec
-----------------------------------------------------------------------------
\* The balance of a table of events as a sum over the events of the tenant.
TenantEvents(table, t) == {e \in Ledger!Ids(table) : table[e].tenant = t}

LEMMA BalanceIs ==
    ASSUME NEW table, NEW t, NEW m, NEW f, IsFiniteSet(TenantEvents(table, t)),
           \A e \in TenantEvents(table, t) :
              Ledger!LineSum(table[e].lines, m, "LOAN_PRINCIPAL") = f[e]
    PROVE  Ledger!MemberBalance(table, t, m, "LOAN_PRINCIPAL") =
               SumFunctionOnSet(f, TenantEvents(table, t))
<1>1. PICK S, sums : /\ S = TenantEvents(table, t)
                     /\ sums = [e \in TenantEvents(table, t) |->
                                   Ledger!LineSum(table[e].lines, m, "LOAN_PRINCIPAL")]
  OBVIOUS
<1>2. Ledger!MemberBalance(table, t, m, "LOAN_PRINCIPAL") = Ledger!SumFunction(sums)
  BY <1>1 DEF Ledger!MemberBalance, TenantEvents
<1>3. DOMAIN sums = S /\ \A e \in S : sums[e] = f[e]
  BY <1>1
<1>4. Ledger!SumFunction(sums) = SumFunctionOnSet(sums, S)
  BY <1>3, SumOverDomain
<1>5. SumFunctionOnSet(sums, S) = SumFunctionOnSet(f, S)
  BY <1>1, <1>3, SumSame
<1>6. QED
  BY <1>1, <1>2, <1>4, <1>5

\* A sum of a function that is given by its terms.
LEMMA SumOfTerms ==
    ASSUME NEW S, IsFiniteSet(S), NEW f, NEW g, DOMAIN g = S, \A x \in S : g[x] = f[x]
    PROVE  SumFunction(g) = SumFunctionOnSet(f, S)
<1>1. SumFunction(g) = SumFunctionOnSet(g, S)
  BY SumOverDomain
<1>2. QED
  BY <1>1, SumSame

\* Between requests nothing is entered and no schedule is behind.
LEMMA QuietFacts ==
    ASSUME Serial, DebtInv, Quiet
    PROVE  /\ Kept /\ Debts
           /\ \A e \in Request : ~Entered(e)
           /\ \A l \in Loan : state[l] # "APPROVED" => OutstandingPrincipal(schedule[l]) = Lent(l)
<1>1. Kept /\ Debts
  BY DEF DebtInv, Quiet, NoneDied
<1>2. \A r \in Request : pc[r] \notin Step
  BY DEF Quiet, InFlight
<1>3. \A e \in Request : ~Entered(e)
  BY <1>2 DEF Entered, Step
<1>4. ASSUME NEW l \in Loan, state[l] # "APPROVED"
      PROVE  OutstandingPrincipal(schedule[l]) = Lent(l)
  <2>1. \A r \in Request : ~Writing(r, l)
    BY <1>2 DEF Writing, Step, RepayStep, RescheduleStep
  <2>2. QED
    BY <1>1, <1>4, <2>1 DEF Debts, Booked
<1>5. QED
  BY <1>1, <1>3, <1>4

\* What the ledger says m owes is what the loans paid out to m still have.
LEMMA OwedIs ==
    ASSUME Serial, DebtInv, Quiet, NEW t \in Tenant, NEW m \in Member
    PROVE  /\ TenantEvents(events, t) = Settled(t)
           /\ Ledger!MemberBalance(events, t, m, "LOAN_PRINCIPAL") = SettledSum(t, m)
           /\ Ledger!MemberBalance(events, t, m, "LOAN_PRINCIPAL") = LentSum(t, m)
<1>1. Kept /\ Debts /\ \A e \in Request : ~Entered(e)
  BY QuietFacts
<1>2. LP!Ids(events) \subseteq Request
  BY DEF LP!Ids, Serial, IInv, LedgerInv, LP!TypeOK
<1>3. TenantEvents(events, t) = Settled(t)
  BY <1>1, <1>2, SameIds DEF TenantEvents, Settled
<1>4. IsFiniteSet(Settled(t)) /\ Settled(t) \subseteq Request
  BY <1>1, <1>2, SettledType
<1>5. \A e \in Settled(t) :
         Ledger!LineSum(events[e].lines, m, "LOAN_PRINCIPAL") = PrincipalLines(m)[e]
  BY <1>4 DEF PrincipalLines
<1>6. Ledger!MemberBalance(events, t, m, "LOAN_PRINCIPAL") =
        SumFunctionOnSet(PrincipalLines(m), TenantEvents(events, t))
  BY <1>3, <1>4, <1>5, BalanceIs
<1>7. SettledSum(t, m) = LentSum(t, m)
  BY <1>1 DEF Debts, Settles
<1>8. QED
  BY <1>3, <1>6, <1>7 DEF SettledSum

\* When requests are served one at a time and none has died, the ledger and the
\* schedules agree between requests on what each member owes: every repayment,
\* waiver and reschedule has written both.
THEOREM SchedulesMatchTheLedger ==
    ASSUME MaxInFlight = 1
    PROVE  Spec => []ScheduleMatchesLedger
<1>1. Serial /\ DebtInv => ScheduleMatchesLedger
  <2> SUFFICES ASSUME Serial, DebtInv, Quiet, NEW t \in Tenant, NEW m \in Member
               PROVE  Ledger!MemberBalance(events, t, m, "LOAN_PRINCIPAL") =
                        SumFunction([l \in PaidOut(t, m) |-> OutstandingPrincipal(schedule[l])])
    BY DEF ScheduleMatchesLedger, PaidOut
  <2>1. IsFiniteSet(PaidOut(t, m)) /\ PaidOut(t, m) \subseteq Loan
    BY QuietFacts, LentSumType
  <2>2. \A l \in PaidOut(t, m) : OutstandingPrincipal(schedule[l]) = LentBy[l]
    BY <2>1, QuietFacts DEF PaidOut, LentBy
  <2>3. PICK owed : owed = [l \in PaidOut(t, m) |-> OutstandingPrincipal(schedule[l])]
    OBVIOUS
  <2>4. DOMAIN owed = PaidOut(t, m) /\ \A l \in PaidOut(t, m) : owed[l] = LentBy[l]
    BY <2>2, <2>3
  <2>5. SumFunction(owed) = SumFunctionOnSet(LentBy, PaidOut(t, m))
    BY <2>1, <2>4, SumOfTerms
  <2>6. QED
    BY <2>3, <2>5, OwedIs DEF LentSum
<1>2. QED
  BY <1>1, DebtInvariant, PTL
-----------------------------------------------------------------------------
\* What the pages show of a loan, and the interest that was repaid.
LEMMA ShownPlusCost ==
    ASSUME Kept, NEW l \in Loan
    PROVE  /\ OutstandingShown(GetLoan(l)) + CostRepaid(l) = Lent(l)
           /\ OutstandingShown(GetLoan(l)) \in Int /\ CostRepaid(l) \in Nat
<1> DEFINE rows == RepaymentsOf(l)
           parts(r) == repayments[r].parts
           total == [r \in rows |-> Total(parts(r))]
           cost == [r \in rows |-> parts(r)["interest"] + parts(r)["penalty"]]
           principal == PrincipalRepaid
<1>1. IsFiniteSet(rows) /\ SumFunctionOnSet(principal, rows) \in Int /\ Lent(l) \in Int
  BY LentType
<1>2. ASSUME NEW r \in rows
      PROVE  /\ principal[r] \in Int /\ cost[r] \in Nat
             /\ total[r] = principal[r] + cost[r]
  <2>1. r \in Stored /\ r \in Request
    BY DEF RepaymentsOf, Stored
  <2>2. /\ parts(r)["principal"] \in Nat /\ parts(r)["interest"] \in Nat
        /\ parts(r)["penalty"] \in Nat
    BY <2>1 DEF Kept, Part
  <2>3. principal[r] = parts(r)["principal"]
    BY <2>1 DEF PrincipalRepaid
  <2>4. cost[r] = parts(r)["interest"] + parts(r)["penalty"] /\ total[r] = Total(parts(r))
    OBVIOUS
  <2> HIDE DEF cost, total, principal, parts
  <2>5. QED
    BY <2>2, <2>3, <2>4 DEF Total
<1>3. TotalRepaid(l) = SumFunction(total) /\ CostRepaid(l) = SumFunction(cost)
  BY DEF TotalRepaid, CostRepaid
<1>4. DOMAIN total = rows /\ DOMAIN cost = rows
  OBVIOUS
<1>5. OutstandingShown(GetLoan(l)) = Contract[l].principal - TotalRepaid(l)
  BY DEF OutstandingShown, GetLoan
<1>6. Lent(l) = Contract[l].principal - SumFunctionOnSet(principal, rows)
  BY DEF Lent
<1> HIDE DEF rows, total, cost, principal
<1>7. /\ SumFunction(total) = SumFunctionOnSet(total, rows)
      /\ SumFunction(cost) = SumFunctionOnSet(cost, rows)
  BY <1>4, SumOverDomain
<1>8. SumFunctionOnSet(total, rows) =
        SumFunctionOnSet(principal, rows) + SumFunctionOnSet(cost, rows)
  BY <1>1, <1>2, SumPlus
<1>9. SumFunctionOnSet(cost, rows) \in Nat
  BY <1>1, <1>2, SumNat
<1>10. Contract[l].principal \in Int
  BY LoanFacts
<1>11. QED
  BY <1>1, <1>3, <1>5, <1>6, <1>7, <1>8, <1>9, <1>10

\* The principal outstanding is part of the debt that the pages show.
LEMMA DebtCovers ==
    ASSUME IInv, NEW l \in Loan
    PROVE  /\ Debt(GetLoan(l)) \in Int
           /\ OutstandingPrincipal(schedule[l]) <= Debt(GetLoan(l))
           /\ OutstandingPrincipal(schedule[l]) \in Int
<1> DEFINE rows == schedule[l]
           owed == [n \in Active(rows) |-> Total(Outstanding(rows[n]))]
           principal == PrincipalOf(rows)
<1>1. RowsSound(rows)
  BY DEF IInv, TypeOK, InstalmentsAddUp, RowsSound
<1>2. /\ IsFiniteSet(Active(rows))
      /\ OutstandingPrincipal(rows) = SumFunctionOnSet(principal, Active(rows))
      /\ OutstandingPrincipal(rows) \in Int
  BY <1>1, OutstandingIs
<1>3. Debt(GetLoan(l)) = SumFunction(owed)
  BY DEF Debt, GetLoan, ScheduleItems
<1>4. DOMAIN owed = Active(rows)
  OBVIOUS
<1>5. ASSUME NEW n \in Active(rows)
      PROVE  principal[n] \in Int /\ owed[n] \in Int /\ principal[n] <= owed[n]
  <2>1. rows[n] \in ItemRow /\ AddsUp(rows[n])
    BY <1>1 DEF RowsSound, Active
  <2>2. \A part \in Part : Outstanding(rows[n])[part] \in Nat
    BY <2>1 DEF ItemRow, AddsUp, Outstanding
  <2>3. principal[n] = Outstanding(rows[n])["principal"]
    BY DEF PrincipalOf
  <2>4. owed[n] = Total(Outstanding(rows[n]))
    OBVIOUS
  <2> HIDE DEF rows, owed, principal
  <2>5. QED
    BY <2>2, <2>3, <2>4 DEF Total, Part
<1> HIDE DEF rows, owed, principal
<1>6. SumFunction(owed) = SumFunctionOnSet(owed, Active(rows))
  BY <1>4, SumOverDomain
<1>7. SumFunctionOnSet(principal, Active(rows)) <= SumFunctionOnSet(owed, Active(rows))
  BY <1>2, <1>5, SumAtMost
<1>8. SumFunctionOnSet(owed, Active(rows)) \in Int
  BY <1>2, <1>5, SumType
<1>9. QED
  BY <1>2, <1>3, <1>6, <1>7, <1>8 DEF rows

\* The events of the traces of m's loans.
Traced(t, m) == UNION {GetLoanTrace(l) : l \in LoansOf(t, m)}

TracedTable(t, m) == [e \in Request |-> IF e \in Traced(t, m) THEN events[e] ELSE NoEvent]

\* An event of the tenant that is in none of the traces is not about m.
LEMMA UntracedIsNothing ==
    ASSUME Serial, DebtInv, Quiet, NEW t \in Tenant, NEW m \in Member,
           NEW e \in Settled(t), e \notin Traced(t, m)
    PROVE  PrincipalLines(m)[e] = 0
<1>1. Kept /\ Accounted(e) /\ e \in LP!Ids(events) /\ events[e].tenant = t
  BY QuietFacts DEF Debts, Settled
<1>2. ~Entered(e)
  BY DEF Settled
<1>3. ASSUME NEW l \in Loan, OnLoan(e, l), e \in GetLoanTrace(l) PROVE PrincipalLines(m)[e] = 0
  <2>1. Contract[l].tenant = t
    BY <1>1, <1>3 DEF OnLoan
  <2>2. m # Contract[l].borrower
    BY <1>3, <2>1 DEF Traced, LoansOf
  <2>3. QED
    BY <1>3, <2>2 DEF OnLoan
<1>4. ASSUME NEW l \in Loan, events[e].key = DisbursementKey(l), OnLoan(e, l)
      PROVE  PrincipalLines(m)[e] = 0
  <2>1. e \in Posted(DisbursementKey(l))
    BY <1>1, <1>4, PostedDef
  <2>2. QED
    BY <1>3, <1>4, <2>1 DEF GetLoanTrace
<1>5. ASSUME NEW q \in Stored, repayments[q].ledgerEvent = e, OnLoan(e, repayments[q].loan)
      PROVE  PrincipalLines(m)[e] = 0
  <2>1. PICK l \in Loan : l = repayments[q].loan
    BY <1>1 DEF Kept, PaidOutLoans
  <2>2. e \in GetLoanTrace(l) /\ OnLoan(e, l)
    BY <1>5, <2>1 DEF GetLoanTrace, RepaymentsOf
  <2>3. QED
    BY <1>3, <2>2
<1>6. QED
  BY <1>1, <1>2, <1>4, <1>5 DEF Accounted

LEMMA TracedIsOwed ==
    ASSUME Serial, DebtInv, Quiet, NEW t \in Tenant, NEW m \in Member
    PROVE  Ledger!MemberBalance(TracedTable(t, m), t, m, "LOAN_PRINCIPAL") = SettledSum(t, m)
<1>1. Kept /\ TenantEvents(events, t) = Settled(t)
  BY QuietFacts, OwedIs
<1>2. /\ IsFiniteSet(Settled(t)) /\ Settled(t) \subseteq LP!Ids(events)
      /\ \A e \in LP!Ids(events) : PrincipalLines(m)[e] \in Int
  BY <1>1, SettledType
<1>3. LP!Ids(events) \subseteq Request
  BY DEF LP!Ids, Serial, IInv, LedgerInv, LP!TypeOK
<1>4. PICK T : T = TenantEvents(TracedTable(t, m), t)
  OBVIOUS
<1>5. T = Settled(t) \cap Traced(t, m)
  <2>1. Settled(t) = {e \in Request : events[e] # NoEvent /\ events[e].tenant = t}
    BY <1>1, <1>3, SameIds DEF TenantEvents, LP!Ids, Serial, IInv, LedgerInv, LP!TypeOK
  <2>2. T = {e \in Request : /\ e \in Traced(t, m)
                             /\ events[e] # NoEvent /\ events[e].tenant = t}
    BY <1>4 DEF TenantEvents, TracedTable, Ledger!Ids
  <2>3. QED
    BY <2>1, <2>2
<1>6. IsFiniteSet(T) /\ T \in SUBSET Settled(t)
  BY <1>2, <1>5, FS_Subset
<1>7. \A e \in T : Ledger!LineSum(TracedTable(t, m)[e].lines, m, "LOAN_PRINCIPAL") =
                     PrincipalLines(m)[e]
  BY <1>2, <1>3, <1>5 DEF TracedTable, PrincipalLines
<1>8. Ledger!MemberBalance(TracedTable(t, m), t, m, "LOAN_PRINCIPAL") =
        SumFunctionOnSet(PrincipalLines(m), T)
  BY <1>4, <1>6, <1>7, BalanceIs
<1>9. SumFunctionOnSet(PrincipalLines(m), Settled(t)) = SumFunctionOnSet(PrincipalLines(m), T)
  <2>1. \A e \in T : PrincipalLines(m)[e] \in Int
    BY <1>2, <1>6
  <2>2. \A e \in Settled(t) \ T : PrincipalLines(m)[e] = 0
    BY <1>5, UntracedIsNothing
  <2>3. QED
    BY <1>2, <1>6, <2>1, <2>2, SumPart
<1>10. QED
  BY <1>8, <1>9 DEF SettledSum

\* When requests are served one at a time and none has died: the borrower owes
\* the amount that the pages show and the interest that was repaid, the traces
\* of the loans hold every event of that debt, and no schedule asks for less.
THEOREM PagesMatchTheLedger ==
    ASSUME MaxInFlight = 1
    PROVE  Spec => []PagesMatchLedger
<1>1. Serial /\ DebtInv => PagesMatchLedger
  <2> SUFFICES ASSUME Serial, DebtInv, Quiet, NEW t \in Tenant, NEW m \in Member
               PROVE  LET owed == Ledger!MemberBalance(events, t, m, "LOAN_PRINCIPAL")
                      IN  /\ owed = SumFunction([l \in PaidOut(t, m) |->
                                        OutstandingShown(GetLoan(l)) + CostRepaid(l)])
                          /\ owed = Ledger!MemberBalance(TracedTable(t, m), t, m,
                                                         "LOAN_PRINCIPAL")
                          /\ \A l \in PaidOut(t, m) :
                                Debt(GetLoan(l)) >= OutstandingShown(GetLoan(l))
    BY DEF PagesMatchLedger, PaidOut, TracedTable, Traced
  <2>1. /\ Ledger!MemberBalance(events, t, m, "LOAN_PRINCIPAL") = SettledSum(t, m)
        /\ Ledger!MemberBalance(events, t, m, "LOAN_PRINCIPAL") = LentSum(t, m)
        /\ Kept /\ IInv
    BY OwedIs, QuietFacts DEF Serial
  <2>2. IsFiniteSet(PaidOut(t, m)) /\ PaidOut(t, m) \subseteq Loan
    BY <2>1, LentSumType
  <2>3. PICK shown : shown = [l \in PaidOut(t, m) |->
                                 OutstandingShown(GetLoan(l)) + CostRepaid(l)]
    OBVIOUS
  <2>4. DOMAIN shown = PaidOut(t, m) /\ \A l \in PaidOut(t, m) : shown[l] = LentBy[l]
    BY <2>1, <2>2, <2>3, ShownPlusCost DEF LentBy
  <2>5. SumFunction(shown) = LentSum(t, m)
    BY <2>2, <2>4, SumOfTerms DEF LentSum
  <2>6. Ledger!MemberBalance(TracedTable(t, m), t, m, "LOAN_PRINCIPAL") = SettledSum(t, m)
    BY TracedIsOwed
  <2>7. ASSUME NEW l \in PaidOut(t, m) PROVE Debt(GetLoan(l)) >= OutstandingShown(GetLoan(l))
    <3>1. l \in Loan /\ OutstandingPrincipal(schedule[l]) = Lent(l)
      BY <2>2, QuietFacts DEF PaidOut
    <3>2. /\ OutstandingShown(GetLoan(l)) + CostRepaid(l) = Lent(l)
          /\ OutstandingShown(GetLoan(l)) \in Int /\ CostRepaid(l) \in Nat
      BY <2>1, <3>1, ShownPlusCost
    <3>3. /\ Debt(GetLoan(l)) \in Int /\ Lent(l) <= Debt(GetLoan(l)) /\ Lent(l) \in Int
      BY <2>1, <3>1, DebtCovers
    <3>4. QED
      BY <3>2, <3>3
  <2>8. QED
    BY <2>1, <2>3, <2>5, <2>6, <2>7
<1>2. QED
  BY <1>1, DebtInvariant, PTL
-----------------------------------------------------------------------------
\* Nothing more is repaid than was lent, also while a request is at work.
LEMMA LentLeft ==
    ASSUME Serial, Kept, Debts, NEW l \in Loan
    PROVE  Lent(l) >= 0
<1>1. Lent(l) \in Int
  BY LentType
<1>2. schedule \in [Loan -> Seq(ItemRow)] /\ RowsSound(schedule[l])
  BY DEF Serial, IInv, TypeOK, InstalmentsAddUp, RowsSound
<1>3. OutstandingPrincipal(schedule[l]) \in Nat
  BY <1>2, OutstandingIs
<1>4. CASE state[l] = "APPROVED"
  <2>1. RepaymentsOf(l) = {}
    BY <1>4 DEF Kept, PaidOutLoans, RepaymentsOf
  <2>2. SumFunctionOnSet(PrincipalRepaid, RepaymentsOf(l)) = 0
    BY <2>1, SumEmpty
  <2>3. QED
    BY <2>2, LoanFacts DEF Lent
<1>5. CASE state[l] # "APPROVED" /\ \A r \in Request : ~Writing(r, l)
  BY <1>3, <1>5 DEF Debts, Booked
<1>6. ASSUME state[l] # "APPROVED", NEW r \in Request, Writing(r, l)
      PROVE  Lent(l) >= 0
  <2>1. OutstandingPrincipal(schedule[l]) = Lent(l) + Behind(r)
    BY <1>6 DEF Debts, Booked
  <2>2. /\ FrameInv(r) /\ frame[r] \in Frame /\ Reads(r) /\ Writes(r) /\ HandlerInv
        /\ LoanOf(r) = l /\ pc[r] \in Step
    BY <1>6 DEF Debts, Writing, Serial, IInv, HandlerInv, TypeOK, Step, RepayStep, RescheduleStep
  <2>3. frame[r].left["principal"] \in Nat
    BY <2>2 DEF FrameInv, Frame, Part
  <2>4. ASSUME frame[r].left["principal"] <= OutstandingPrincipal(schedule[l]),
               Behind(r) = frame[r].left["principal"]
        PROVE  Lent(l) >= 0
    BY <1>1, <1>3, <2>1, <2>3, <2>4
  <2>5. /\ IsFiniteSet(Active(schedule[l]))
        /\ \A n \in Active(schedule[l]) : PrincipalOf(schedule[l])[n] \in Nat
        /\ OutstandingPrincipal(schedule[l]) =
              SumFunctionOnSet(PrincipalOf(schedule[l]), Active(schedule[l]))
    BY <1>2, OutstandingIs
  <2>6. ASSUME NEW S, S \subseteq Active(schedule[l]),
               frame[r].left["principal"] <= SumFunctionOnSet(PrincipalOf(schedule[l]), S)
        PROVE  frame[r].left["principal"] <= OutstandingPrincipal(schedule[l])
    <3>1. SumFunctionOnSet(PrincipalOf(schedule[l]), S) <= OutstandingPrincipal(schedule[l])
      BY <2>5, <2>6, SumWithin
    <3>2. SumFunctionOnSet(PrincipalOf(schedule[l]), S) \in Nat
      BY <2>5, <2>6, SumNat, FS_Subset
    <3>3. QED
      BY <1>3, <2>3, <2>6, <3>1, <3>2
  <2>7. CASE pc[r] = "reading"
    <3>1. command[r].amount \in Int
      BY <2>2, <2>7, OwnCommand, InstructionFacts DEF RepayStep, Repay
    <3>2. frame[r].left = Allocation(command[r].amount, schedule[l])
      BY <2>2, <2>7 DEF Reads, AllocationOf
    <3>3. /\ Payable(schedule[l]) \subseteq Active(schedule[l])
          /\ frame[r].left["principal"] <=
                SumFunctionOnSet(PrincipalOf(schedule[l]), Payable(schedule[l]))
      BY <1>2, <3>1, <3>2, AllocatedPrincipal
    <3>4. Behind(r) = frame[r].left["principal"]
      BY <2>7 DEF Behind
    <3>5. QED
      BY <2>4, <2>6, <3>3, <3>4
  <2>8. CASE pc[r] = "updating"
    <3>1. /\ frame[r].todo \subseteq Active(schedule[l])
          /\ frame[r].left["principal"] <=
                SumFunctionOnSet(PrincipalOf(schedule[l]), frame[r].todo)
      BY <2>2, <2>8 DEF Writes
    <3>2. Behind(r) = frame[r].left["principal"]
      BY <2>8 DEF Behind
    <3>3. QED
      BY <2>4, <2>6, <3>1, <3>2
  <2>9. CASE pc[r] = "creating"
    <3>1. OutstandingPrincipal(frame[r].items) \in Nat
      BY <2>2, <2>9 DEF FrameInv, RescheduleStep
    <3>2. Behind(r) = 0 - OutstandingPrincipal(frame[r].items)
      BY <2>9 DEF Behind
    <3>3. QED
      BY <1>1, <1>3, <2>1, <3>1, <3>2
  <2>10. QED
    BY <1>6, <2>7, <2>8, <2>9 DEF Writing
<1>7. QED
  BY <1>4, <1>5, <1>6

\* "Repayment amount exceeds outstanding" keeps its word when requests are served
\* one at a time and none has died, also between the statements of a request: no
\* loan takes in more principal than it lent.
THEOREM SerialNeverOverRepaid ==
    ASSUME MaxInFlight = 1
    PROVE  Spec => [](NoneDied => NotOverRepaid)
<1>1. Serial /\ DebtInv => (NoneDied => NotOverRepaid)
  <2> SUFFICES ASSUME Serial, Kept, Debts, NEW l \in Loan
               PROVE  SumFunction([r \in RepaymentsOf(l) |-> repayments[r].parts["principal"]])
                        <= Contract[l].principal
    BY DEF DebtInv, NotOverRepaid, RepaymentsOf
  <2>1. PICK repaid : repaid = [r \in RepaymentsOf(l) |-> repayments[r].parts["principal"]]
    OBVIOUS
  <2>2. /\ IsFiniteSet(RepaymentsOf(l))
        /\ SumFunctionOnSet(PrincipalRepaid, RepaymentsOf(l)) \in Int
    BY LentType
  <2>3. RepaymentsOf(l) \subseteq Request
    BY DEF RepaymentsOf, Stored
  <2>4. /\ DOMAIN repaid = RepaymentsOf(l)
        /\ \A r \in RepaymentsOf(l) : repaid[r] = PrincipalRepaid[r]
    BY <2>1, <2>3 DEF PrincipalRepaid
  <2>5. SumFunction(repaid) = SumFunctionOnSet(PrincipalRepaid, RepaymentsOf(l))
    BY <2>2, <2>4, SumOfTerms
  <2>6. Contract[l].principal \in Int
    BY LoanFacts
  <2>7. QED
    BY <2>1, <2>2, <2>5, <2>6, LentLeft DEF Lent
<1>2. QED
  BY <1>1, DebtInvariant, PTL
=============================================================================
