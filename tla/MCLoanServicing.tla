-------------------------- MODULE MCLoanServicing --------------------------
(***************************************************************************)
(* Small instances of LoanServicing: one loan of two instalments with      *)
(* interest, and a loan of another group under the same repayment key.     *)
(***************************************************************************)
EXTENDS LoanReads

CONSTANTS r1, r2, r3, r4

\* A principal of 3 over 2 terms at 25% flat gives 1 + 1 and 2 + 1.
MCContract ==
    [l \in {"loan", "foreign"} |->
        IF l = "loan"
        THEN [tenant |-> "t1", borrower |-> "ann", principal |-> 3, terms |-> 2, rateBps |-> 2500]
        ELSE [tenant |-> "t2", borrower |-> "bob", principal |-> 1, terms |-> 1, rateBps |-> 0]]

Disbursed(l, t) == [op |-> "disburse", tenant |-> t, loan |-> l]
Repaying(l, t, n, file, k) ==
    [op |-> "repay", tenant |-> t, loan |-> l, amount |-> n, evidence |-> file, key |-> k]
Waiving(l, t, i, n) == [op |-> "waive", tenant |-> t, loan |-> l, item |-> i, amount |-> n]
Rescheduled(l, t, n) == [op |-> "reschedule", tenant |-> t, loan |-> l, terms |-> n]

\* Requests that race for one loan.
MCRacing ==
    {Disbursed("loan", "t1"), Repaying("loan", "t1", 2, NoEvidence, "k1"),
     Repaying("loan", "t1", 5, NoEvidence, "k2"),
     Waiving("loan", "t1", 2, 1), Rescheduled("loan", "t1", 1)}

\* Every kind of request, also for the other group's loan.
MCSerial ==
    {Disbursed("loan", "t1"), Disbursed("foreign", "t2"),
     Repaying("loan", "t1", 2, NoEvidence, "k1"), Repaying("loan", "t1", 3, NoEvidence, "k2"),
     Repaying("foreign", "t2", 1, "photo", "k1"), Repaying("foreign", "t2", 1, "photo", "k3"),
     Waiving("loan", "t1", 1, 3), Rescheduled("loan", "t1", 1)}

MCTwoRepayments ==
    {Disbursed("loan", "t1"), Repaying("loan", "t1", 5, NoEvidence, "k1"),
     Repaying("loan", "t1", 5, NoEvidence, "k2")}

Symmetry == Permutations(Request)
=============================================================================
