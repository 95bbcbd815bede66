------------------------------ MODULE LoanReads ------------------------------
(***************************************************************************)
(* What is read of a loan: LoanService.getLoan and listByGroup             *)
(* (backend/src/loan/loan.service.ts), the trace of a loan                 *)
(* (support/entity-trace.service.ts), and what the pages of the borrower   *)
(* and the treasurer work out from them, as operators on the tables of     *)
(* LoanServicing.                                                          *)
(***************************************************************************)
EXTENDS LoanServicing

RepaymentsOf(l) == {r \in Stored : repayments[r].loan = l}

\* Defect: only the principal of the repayments is counted.
TotalRepaidPrincipal(l) ==
    SumFunction([r \in RepaymentsOf(l) |-> repayments[r].parts["principal"]])

\* totalRepaidMinor: principal, interest and penalty of every repayment.
TotalRepaid(l) == SumFunction([r \in RepaymentsOf(l) |-> Total(repayments[r].parts)])

\* The instalments that getLoan returns.
ScheduleItems(l) == Active(schedule[l])

ExceptionEvents(l) == {r \in exceptions : command[r].loan = l}

GetLoan(l) ==
    [state |-> state[l], principal |-> Contract[l].principal, totalRepaid |-> TotalRepaid(l),
     scheduleItems |-> [n \in ScheduleItems(l) |-> schedule[l][n]],
     repayments |-> RepaymentsOf(l), exceptionEvents |-> ExceptionEvents(l)]

ListByGroup(t) ==
    [l \in {x \in Loan : Contract[x].tenant = t} |->
        [borrower |-> Contract[l].borrower, principal |-> Contract[l].principal,
         state |-> state[l], totalRepaid |-> TotalRepaid(l)]]

\* The ledger events of the trace: the disbursement, found by the loan, and
\* those that the repayments name.
GetLoanTrace(l) ==
    Posted(DisbursementKey(l)) \cup {repayments[r].ledgerEvent : r \in RepaymentsOf(l)}

\* The pages' outstanding: the principal less everything that was repaid.
OutstandingShown(loan) == loan.principal - loan.totalRepaid

\* The treasurer's page to record a repayment shows its form, and not the
\* message that nothing is outstanding.
RepayPageOpen(loan) == loan.state = "ACTIVE" /\ OutstandingShown(loan) > 0

\* The member's dashboard: what remains of the ACTIVE loans.
ActiveLoanBalance(t, m) ==
    SumFunction([l \in {x \in DOMAIN ListByGroup(t) :
                            /\ ListByGroup(t)[x].borrower = m
                            /\ ListByGroup(t)[x].state = "ACTIVE"}
                   |-> OutstandingShown(ListByGroup(t)[l])])
-----------------------------------------------------------------------------
CostRepaid(l) ==
    SumFunction([r \in RepaymentsOf(l) |->
        repayments[r].parts["interest"] + repayments[r].parts["penalty"]])

Debt(loan) ==
    SumFunction([n \in DOMAIN loan.scheduleItems |-> Total(Outstanding(loan.scheduleItems[n]))])

\* Between requests, with none lost: the outstanding amount that the pages show
\* is less than the borrower owes the group by exactly the interest that was
\* repaid, and the events of the traces account for all that is owed.
PagesMatchLedger ==
    Quiet =>
        \A t \in Tenant, m \in Member :
            LET owed == Ledger!MemberBalance(events, t, m, "LOAN_PRINCIPAL")
                paidOut == {l \in LoansOf(t, m) : state[l] # "APPROVED"}
                traced == UNION {GetLoanTrace(l) : l \in LoansOf(t, m)}
            IN  /\ owed = SumFunction([l \in paidOut |->
                                OutstandingShown(GetLoan(l)) + CostRepaid(l)])
                /\ owed = Ledger!MemberBalance([e \in Request |->
                                IF e \in traced THEN events[e] ELSE NoEvent],
                                t, m, "LOAN_PRINCIPAL")
                /\ \A l \in paidOut : Debt(GetLoan(l)) >= OutstandingShown(GetLoan(l))

\* docs/VC_GROW_COPY_SPEC.md, grow_repay_noOutstanding: "This loan has no
\* outstanding amount.": the repay page turns a repayment of an ACTIVE loan
\* away only when its schedule has nothing outstanding.
DebtCanBeRepaid ==
    Quiet =>
        \A l \in Loan :
            GetLoan(l).state = "ACTIVE" /\ Debt(GetLoan(l)) > 0 => RepayPageOpen(GetLoan(l))
=============================================================================
