CONSTANTS
    Clients = {c}
    Admins = {c}
    Size <- MCSize
    Drawn <- MCDrawn
    MaxUpdates = 2
    MaxResizes = 1
    MaxHides = 1
    MaxConnects = 2
CONSTRAINT FewJobs
SPECIFICATION Spec
INVARIANTS
    TypeOK
    ViewersCurrent
    HiddenUnlessInFlight
CHECK_DEADLOCK FALSE
