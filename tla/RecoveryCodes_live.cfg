\* Every call returns, throttled or not, reset or not: no symmetry.
CONSTANTS
    Clients = {c1, c2}
    Scopes = {s1}
    NoScope = NoScope  NoOne = NoOne  NoCall = NoCall  NoEntry = NoEntry
    None = None  Junk = Junk
    ScopeChoices = {s1}
    Kinds = {"create", "reset", "verify"}
    AuditChoices = {FALSE}
    Limit = 1
    BatchSize = 1
    MaxBatches = 2
SPECIFICATION FairSpec
PROPERTIES EveryCallReturns
