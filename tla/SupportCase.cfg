SPECIFICATION SidesSpec
CONSTANTS
    NoData = NoData
    m1 = m1
    m2 = m2
    f1 = f1
    e1 = e1
    t1 = t1
    t2 = t2
    c1 = c1
    c2 = c2
    agent = agent
    other = other
    r1 = r1
    r2 = r2
    r3 = r3
    Roll <- MCRoll
    Key <- MCKey
    MaxAmount = 1
    Debt = 2
    MaxRequests = 2
    MaxVisits <- MCVisits
    MaxElsewhere <- MCElsewhere
    FileId = {f1}
    Entity = {e1}
    TenantId = {t1, t2}
    NoTenantId = NoTenantId
    GateEntry <- MCGateEntry
    NoGate = NoGate
    NoPage = NoPage
    MaxFetches = 2
    Tenant = {t1, t2}
    NoTenant = NoTenant
    FirstLog <- MCFirstLog
    FirstSequence <- MCFirstSequence
    Case = {c1}
    Blank = Blank
    User = {agent, other}
    Holder = {agent}
    File = {f1}
    Notification = {1, 2}
    NotificationGroup <- MCNotificationGroup
    Request = {r1, r2, r3}
    Instruction <- MCInstruction
    PageLimit = 1
    MaxInFlight = 2
    NoSubject = NoSubject
    NoCommand = NoCommand
INVARIANTS
    CaseWasLogged
CHECK_DEADLOCK FALSE
