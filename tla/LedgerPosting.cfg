SPECIFICATION Spec
CONSTANTS
    r1 = r1
    r2 = r2
    r3 = r3
    m1 = m1
    Request = {r1, r2, r3}
    Tenant = {"t1", "t2"}
    Member = {m1}
    GroupAccount = GroupAccount
    FundBucket = {"SAVINGS", "SOCIAL_FUND"}
    Key = {"k1"}
    NoKey = NoKey
    NoEvent = NoEvent
    NoCommand = NoCommand
    BucketName = {"SAVINGS", "SOCIAL_FUND", "OTHER"}
    Lines <- MCLines
    MaxInFlight = 3
SYMMETRY Symmetry
INVARIANTS
    OneEventPerKey
    AuditTrail
PROPERTIES
    ImplementsBook
CHECK_DEADLOCK FALSE
