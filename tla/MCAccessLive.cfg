CONSTANTS
    u1 = u1
    u2 = u2
    u3 = u3
    Users <- MCTwoUsers
    IPOf <- MCTwoAddresses
    NoData = NoData
    ChatLimit = 2
    Quiet = {u1}
    MaxBans = 2
SPECIFICATION Spec
PROPERTIES
    BannedStayOut
    BannedIsGone
    SilentIsGone
CHECK_DEADLOCK FALSE
