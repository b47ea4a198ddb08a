CONSTANTS
    Users = {u1, u2, u3}
    TurnTime = 3
SPECIFICATION Spec
INVARIANTS
    PausedClockStopped
