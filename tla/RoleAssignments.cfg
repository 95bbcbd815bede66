SPECIFICATION Spec
CONSTANTS
    r1 = r1
    r2 = r2
    r3 = r3
    Group = {"g1", "g2"}
    User = {"ann", "bob", "cy"}
    Member = {"chair", "other", "away"}
    Profile <- MCProfile
    PlatformAdmin = {"cy"}
    Request = {r1, r2, r3}
    Instruction <- MCInstruction
    MaxInFlight = 2
    Edited = {"other"}
    NoUser = NoUser
    NoMember = NoMember
    NoGroupRole = NoGroupRole
    NoAssignment = NoAssignment
    NoCommand = NoCommand
SYMMETRY Symmetry
INVARIANTS
    OneActiveAssignment
    EntitledWhileServed
    ChangeRevokesFirst
CHECK_DEADLOCK FALSE
