CONSTANTS
    u1 = u1
    u2 = u2
    u3 = u3
    admin = admin
    Users <- MCUsers
    Staff <- MCStaff
    IPOf <- MCIPOf
    MaxConnections = 1
    TurnTime = 1
    TurnMaximum = 0
SYMMETRY MCSymmetry
CONSTRAINT FewUsers
SPECIFICATION Spec
INVARIANTS
    ControllerConsistent
    GhostsExplained
    TurnLimitPlusOne
PROPERTIES
    MutedStayOut
    ImplementsLine
    OnlyStaffOvertakes
CHECK_DEADLOCK FALSE
