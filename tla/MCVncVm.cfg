CONSTANTS
    Resets = {r1, r2, r3}
    NoReset = NoReset
    Displays = {d1, d2}
    NoDisplay = NoDisplay
SPECIFICATION Spec
INVARIANTS
    TypeOK
    OneDisplay
    QuietMeansStarted
PROPERTIES
    VmServesAgain
CHECK_DEADLOCK FALSE
