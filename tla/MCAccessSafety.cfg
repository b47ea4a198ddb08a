CONSTANTS
    u1 = u1
    u2 = u2
    u3 = u3
    Users <- MCUsers
    IPOf <- MCOneAddress
    NoData = NoData
    ChatLimit = 2
    Quiet = {}
    MaxBans = 2
SYMMETRY MCSymmetry
SPECIFICATION Spec
INVARIANTS
    TypeOK
    SharedData
    ExitExplained
PROPERTIES
    MuteBinds
CHECK_DEADLOCK FALSE
