CONSTANTS
    Users = {u1, u2, u3}
    IPOf <- MCIPOf
    MaxConnections = 2
    Accounts = {alice, root}
    StaffAccounts = {root}
    Refused = {alice}
    Guests = {g1, g2, g3}
    NoName = NoName
    MaxLogins = 2
SYMMETRY MCSymmetry
VIEW MCView
SPECIFICATION Spec
INVARIANT
    LoggedInKeepName
