CONSTANTS
    u1 = u1
    u2 = u2
    admin = admin
    Users <- MCUsers
    Staff <- MCStaff
    IPOf <- MCIPOf
    EnabledVotes = {"reset", "reboot"}
    MediaEnabled = FALSE
    VoteTime = 2
    Cooldown = 1
    MaxVotes = 3
    MaxEnds = 2
VIEW MCView
SPECIFICATION Spec
INVARIANTS
    FlagsClearBetweenVotes
    
    LeaversDoNotCount
CHECK_DEADLOCK FALSE
