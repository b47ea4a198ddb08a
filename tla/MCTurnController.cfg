CONSTANTS
    Users = {u1, u2, u3, u4}
    TurnTime = 3
SPECIFICATION Spec
INVARIANTS
    TypeOK
    NoDuplicates
    StateMatchesQueue
    ClockRunsWhileContested
PROPERTIES
    PromisedWaitKept
    WaiterServed
    ImplementsLine
