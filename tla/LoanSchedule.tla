--------------------------- MODULE LoanSchedule ---------------------------
(***************************************************************************)
(* The arithmetic of loan schedules: generateSchedule, allocateRepayment   *)
(* and what a repayment or a waiver writes to one instalment.  Amounts are *)
(* whole minor units; a schedule is a sequence of LoanScheduleItem rows,   *)
(* indexed by installmentNo.  Due dates are left out: nothing reads them.  *)
(***************************************************************************)
EXTENDS Integers, Sequences, SequencesExt

CONSTANT NoReschedule   \* supersededByRescheduleEventId null

Part == {"principal", "interest", "penalty"}
Nothing == [part \in Part |-> 0]

Total(amounts) == amounts["principal"] + amounts["interest"] + amounts["penalty"]

\* The ways to split an amount over the parts of a debt.
Split(amount) == {parts \in [Part -> 0..amount] : Total(parts) = amount}

Lesser(a, b) == IF a <= b THEN a ELSE b

\* The i-th of n equal instalments of a total; the last takes the remainder.
Instalment(total, n, i) == (total \div n) + (IF i = n THEN total % n ELSE 0)

\* Flat interest, rounded half up: Math.round of a non-negative quotient.
TotalInterest(principal, terms, rateBps) ==
    (2 * principal * rateBps * terms + 10000) \div 20000

NewItem(principal, interest) ==
    [due |-> [part \in Part |-> CASE part = "principal" -> principal
                                  [] part = "interest" -> interest
                                  [] OTHER -> 0],
     paid |-> Nothing, status |-> "DUE", superseded |-> NoReschedule]

GenerateSchedule(principal, terms, rateBps) ==
    [i \in 1..terms |->
        NewItem(Instalment(principal, terms, i),
                Instalment(TotalInterest(principal, terms, rateBps), terms, i))]

Outstanding(item) == [part \in Part |-> item.due[part] - item.paid[part]]

\* Rows that no reschedule superseded; among them those that can be repaid.
Active(items) == {n \in DOMAIN items : items[n].superseded = NoReschedule}
Payable(items) == {n \in Active(items) : items[n].status \in {"DUE", "PART_PAID"}}

OutstandingPrincipal(items) ==
    SumFunction([n \in Active(items) |-> Outstanding(items[n])["principal"]])

-----------------------------------------------------------------------------
\* One turn of allocateRepayment's loop: penalty, then interest, then
\* principal of the item, as far as the amount goes.
Take(taken, item, amount) ==
    LET out == Outstanding(item)
        left == amount - Total(taken)
        penalty == Lesser(left, out["penalty"])
        interest == Lesser(left - penalty, out["interest"])
        principal == Lesser(left - penalty - interest, out["principal"])
    IN  IF left <= 0 THEN taken
        ELSE [taken EXCEPT !["penalty"] = @ + penalty, !["interest"] = @ + interest,
                           !["principal"] = @ + principal]

\* allocateRepayment: what of the amount goes to each part of the debt, over
\* the rows that can be repaid, by installmentNo.
Allocation(amount, items) ==
    LET taken[n \in 0..Len(items)] ==
            IF n = 0 THEN Nothing
            ELSE IF n \in Payable(items) THEN Take(taken[n - 1], items[n], amount)
            ELSE taken[n - 1]
    IN  taken[Len(items)]

\* Defect: the first item takes all that is left, whatever is due on it.
ShareUncapped(item, left) == left

\* What updateScheduleItemsFromAllocation gives one item of what is left.
Share(item, left) ==
    [part \in Part |-> Lesser(left[part], Outstanding(item)[part])]

Minus(left, share) == [part \in Part |-> left[part] - share[part]]

\* The columns that a repayment writes, from the item as it was read.
Repaid(item, left) ==
    LET paid == [part \in Part |-> item.paid[part] + Share(item, left)[part]]
    IN  [paid |-> paid,
         status |-> IF Total(paid) >= Total(item.due) THEN "PAID" ELSE "PART_PAID"]

\* The columns that a waiver writes: penalty, then interest, never principal.
Waived(item, amount) ==
    LET out == Outstanding(item)
        penalty == Lesser(amount, out["penalty"])
        interest == IF amount > penalty THEN Lesser(amount - penalty, out["interest"]) ELSE 0
        paid == [item.paid EXCEPT !["penalty"] = @ + penalty, !["interest"] = @ + interest]
    IN  [paid |-> paid,
         status |-> IF \A part \in Part : paid[part] >= item.due[part]
                    THEN "WAIVED" ELSE "PART_PAID"]
=============================================================================
