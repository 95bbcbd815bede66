-------------------------- MODULE MCNotifications --------------------------
(***************************************************************************)
(* Two members, one who opted out of SMS and is no user; of the approvers  *)
(* one is a member and one is not.                                         *)
(***************************************************************************)
EXTENDS Notifications

CONSTANTS t1, y1, w1, w2

MCMemberRow ==
    [m \in Member |->
        IF m = "ann" THEN [user |-> TRUE, phone |-> TRUE, optOut |-> FALSE, active |-> TRUE]
        ELSE [user |-> FALSE, phone |-> TRUE, optOut |-> TRUE, active |-> TRUE]]

MCApprover == <<"ann", NoMember>>

Due(loan, m, late, s) ==
    [loan |-> loan, borrower |-> m, overdue |-> late, status |-> s, superseded |-> FALSE]
MCScheduleItem ==
    {Due("l1", "ann", TRUE, "DUE"), Due("l1", "ann", FALSE, "DUE"),
     Due("l2", "bob", TRUE, "PART_PAID")}

Started(k, m) == [key |-> k, member |-> m]
MCTrigger ==
    {Started("receipt_confirmation", "ann"), Started("approval_decision", "bob"),
     Started("approval_required", NoMember),
     Started("overdue_repayment_reminder", NoMember), Started("meeting_reminder", NoMember)}
=============================================================================
