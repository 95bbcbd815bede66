SPECIFICATION Spec
CONSTANTS
    r1 = r1
    r2 = r2
    r3 = r3
    c1 = c1
    c2 = c2
    Group = {"g1", "g2"}
    RuleChange = {c1, c2}
    RuleCall <- MCRuleCall
    MaxClock = 1
    MaxChanging = 2
    NoVersion = NoVersion
    NoDate = NoDate
    NoCall = NoCall
    Keep = Keep
    Request = {r1, r2, r3}
    Application <- MCApplication
    MaxInFlight = 2
    NoApplication = NoApplication
    NoLoan = NoLoan
    NoCommand = NoCommand
    NoSnapshot = NoSnapshot
    NoReschedule = NoReschedule
SYMMETRY Symmetry
INVARIANTS
    RulesSurviveChange
    OneLoanPerApplication
    StatusFollowsLoan
    TermsFromVersion
CHECK_DEADLOCK FALSE
