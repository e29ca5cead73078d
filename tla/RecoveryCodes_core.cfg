\* Callers of one user create, reset and verify batches of two codes.
CONSTANTS
    Clients = {c1, c2}
    Scopes = {}
    NoScope = NoScope  NoOne = NoOne  NoCall = NoCall  NoEntry = NoEntry
    None = None  Junk = Junk
    ScopeChoices = {NoScope}
    Kinds = {"create", "reset", "verify"}
    AuditChoices = {TRUE}
    Limit = 1
    BatchSize = 2
    MaxBatches = 2
SYMMETRY ClientSymmetry
SPECIFICATION Spec
INVARIANTS TypeOK OneFate ReplacedWhole OwnCodeIsRecognised AuditExplainsCodes
PROPERTIES HonouredOnce ResetIsFinal
