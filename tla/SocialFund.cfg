SPECIFICATION Spec
CONSTANTS
    r1 = r1
    r2 = r2
    r3 = r3
    Group = {"g1", "g2"}
    Member = {"ann", "bob"}
    FirstGroups = {"g1"}
    FirstMembers <- MCFirstMembers
    Request = {r1, r2, r3}
    Instruction <- MCInstruction
    MaxInFlight = 2
    Bucket = {"b1", "b2"}
    FirstBuckets <- MCFirstBuckets
    Key = {"k1"}
    Amount <- MCAmount
    Precision = 13
    NoKey = NoKey
    EmptyKey = EmptyKey
    NoEntry = NoEntry
    NoMember = NoMember
    NoRow = NoRow
    NoId = NoId
    NoChange = NoChange
    NoCommand = NoCommand
SYMMETRY Symmetry
INVARIANTS
    KeyedOnce
    BalanceIsNet
    TrailAccounts
CHECK_DEADLOCK FALSE
