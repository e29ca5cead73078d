\* Two devices whose calls share a scope, under fairness: no symmetry.
CONSTANTS
    Clients = {c1, c2}
    Devices = {d1, d2}
    Scopes = {s1}
    NoScope = NoScope  NoOne = NoOne  NoCall = NoCall  NoEntry = NoEntry
    None = None  Junk = Junk  Blank = Blank
    ScopesOf <- OwnScope
    CodeAt <- DistinctCodes
    Kinds = {"verify"}
    AuditModes = {FALSE}
    LookAhead = 0  SearchWindow = 0  ReplayWindow = 0
    Limit = 1
    InitialCounters = {0}
    MaxCounter = 1
    MaxAudit = 0
SPECIFICATION FairSpec
INVARIANTS FailuresBounded
PROPERTIES EveryCallReturns
