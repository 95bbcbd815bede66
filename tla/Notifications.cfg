SPECIFICATION FairSpec
CONSTANTS
    t1 = t1
    y1 = y1
    w1 = w1
    w2 = w2
    Member = {"ann", "bob"}
    MemberRow <- MCMemberRow
    Approver <- MCApprover
    ScheduleItem <- MCScheduleItem
    SmsNotificationsEnabled = TRUE
    SmsReceiptConfirmationEnabled = FALSE
    TriggerRun = {t1}
    Retry = {y1}
    Trigger <- MCTrigger
    Callback = {w1, w2}
    MaxPlan = 3
    MaxInFlight = 2
    NoMember = NoMember
    NoRow = NoRow
    NoMessage = NoMessage
    NoCommand = NoCommand
    NoReport = NoReport
    NoId = NoId
INVARIANTS
    StatusIsEarned
    NoSmsAgainstWill
    TriggerCompletes
PROPERTIES
    QueuedIsTried
CHECK_DEADLOCK FALSE
