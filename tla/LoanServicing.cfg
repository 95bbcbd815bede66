SPECIFICATION Spec
CONSTANTS
    r1 = r1
    r2 = r2
    r3 = r3
    r4 = r4
    Request = {r1, r2, r3, r4}
    Tenant = {"t1", "t2"}
    Member = {"ann", "bob"}
    GroupAccount = GroupAccount
    Loan = {"loan", "foreign"}
    Contract <- MCContract
    RepaymentKey = {"k1", "k2", "k3"}
    Evidence = {"photo"}
    Instruction <- MCRacing
    MaxInFlight = 2
    NoKey = NoKey
    NoEvent = NoEvent
    NoCommand = NoCommand
    NoEvidence = NoEvidence
    NoItem = NoItem
    NoRepayment = NoRepayment
    NoReschedule = NoReschedule
SYMMETRY Symmetry
INVARIANTS
    OneRepaymentPerKey
    RepaymentIsPosted
    PostedIsRecorded
    InstalmentsAddUp
CHECK_DEADLOCK FALSE
