\* The throttle of a user's verifications against their row locks: one code, a
\* limit of one, and calls that wait for one another.
CONSTANTS
    Clients = {c1, c2}
    Scopes = {s1}
    NoScope = NoScope  NoOne = NoOne  NoCall = NoCall  NoEntry = NoEntry
    None = None  Junk = Junk
    ScopeChoices = {s1}
    Kinds = {"create", "verify"}
    AuditChoices = {FALSE}
    Limit = 1
    BatchSize = 1
    MaxBatches = 1
SPECIFICATION SpecWaited
INVARIANTS ThrottledBeforeCompare
