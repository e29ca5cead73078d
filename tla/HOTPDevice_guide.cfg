\* The enrolment flow of the integration guide: the first code of a new device.
CONSTANTS
    Clients = {c1, c2}
    Devices = {d1}
    Scopes = {s1}
    NoScope = NoScope  NoOne = NoOne  NoCall = NoCall  NoEntry = NoEntry
    None = None  Junk = Junk  Blank = Blank
    ScopesOf <- OwnScope
    CodeAt <- DistinctCodes
    Kinds = {"verify", "resync"}
    AuditModes = {FALSE}
    LookAhead = 1  SearchWindow = 2  ReplayWindow = 1
    Limit = 2
    InitialCounters = {0}
    MaxCounter = 3
    MaxAudit = 0
SPECIFICATION Spec
INVARIANTS FirstCodeConfirms
