SPECIFICATION HistorySpec
CONSTANTS
    r1 = r1
    r2 = r2
    r3 = r3
    Request = {r1, r2, r3}
    Tenant = {"t1", "t2"}
    Member = {"ann", "bob"}
    GroupAccount = GroupAccount
    ContributionKey = {"k1", "k2"}
    Evidence = {"photo"}
    Home <- MCHome
    Submission <- MCSubmission
    MaxItems = 2
    MaxInFlight = 3
    TotalDeclared = TRUE
    NoKey = NoKey
    NoEvent = NoEvent
    NoCommand = NoCommand
    NoEvidence = NoEvidence
    NoContribution = NoContribution
    Meeting = {"m1"}
    NoMeeting = NoMeeting
    ModeOf <- MCModeOf
    MeetingOf <- MCMeetingOf
    DayOf <- MCDayOf
    PageSize = 1
SYMMETRY Symmetry
INVARIANTS
    OneContributionPerKey
    LinkedToItsEvent
    PostedIsRecorded
    ReversalReachesRow
    EvidenceLinkedOnceSerially
    ReportsMatchLedger
    TraceShowsLedger
CHECK_DEADLOCK FALSE
