\* Three callers of one scope, of whom nothing is assumed, while time passes.
CONSTANTS
    Clients = {1, 2, 3}
    Scopes = {s1}
    NoEntry = NoEntry
    Limit = 2
    Period = 2
    MaxFailures = 6
SPECIFICATION FairSpec
INVARIANTS FailuresCounted OvershootBounded
PROPERTIES SettledLockoutHolds WindowIsFixed LockoutEnds
