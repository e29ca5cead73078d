\* Every call audited: the trail of one device through concurrent, throttled,
\* inactive and aborted calls.
CONSTANTS
    Clients = {c1, c2}
    Devices = {d1}
    Scopes = {s1}
    NoScope = NoScope  NoOne = NoOne  NoCall = NoCall  NoEntry = NoEntry
    None = None  Junk = Junk  Blank = Blank
    ScopesOf <- ScopeOrNone
    CodeAt <- DistinctCodes
    Kinds = {"verify", "resync"}
    AuditModes = {TRUE}
    LookAhead = 1  SearchWindow = 2  ReplayWindow = 1
    Limit = 1
    InitialCounters = {0, 2}
    MaxCounter = 3
    MaxAudit = 3
SYMMETRY ClientSymmetry
SPECIFICATION Spec
INVARIANTS AuditAccountsForCounter
PROPERTIES RetryIsAccepted
