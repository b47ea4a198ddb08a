CONSTANTS
    u1 = u1
    u2 = u2
    admin = admin
    Users <- MCTwoUsers
    Staff <- MCStaff
    IPOf <- MCIPOf
    EnabledVotes = {"insert", "eject"}
    MediaEnabled = TRUE
    VoteTime = 1
    Cooldown = 1
    MaxVotes = 2
    MaxEnds = 2
VIEW MCView
SPECIFICATION Spec
INVARIANTS
    TypeOK
    NoOrphanVote
    LateMarks
PROPERTIES
    VoteSettles
    StuckOnlyByBadId
    ImplementsBallot
CHECK_DEADLOCK FALSE
