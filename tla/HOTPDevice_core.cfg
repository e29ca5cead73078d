\* Two callers on one device, throttled by a scope of the device: codes that
\* are fresh, late, repeated or wrong, aborts, and a counter that reaches the
\* maximum of its column.
CONSTANTS
    Clients = {c1, c2}
    Devices = {d1}
    Scopes = {s1}
    NoScope = NoScope  NoOne = NoOne  NoCall = NoCall  NoEntry = NoEntry
    None = None  Junk = Junk  Blank = Blank
    ScopesOf <- OwnScope
    CodeAt <- DistinctCodes
    Kinds = {"verify", "resync"}
    AuditModes = {FALSE}
    LookAhead = 1  SearchWindow = 2  ReplayWindow = 1
    Limit = 2
    InitialCounters = {0}
    MaxCounter = 3
    MaxAudit = 0
SYMMETRY ClientSymmetry
SPECIFICATION Spec
INVARIANTS TypeOK TokenNotOvertaken CheckedIsAllowed
PROPERTIES HonouredOnce CounterOnlyAdvances
