\* Two callers on one device, on machines a step off either way; codes come
\* again every third step.
CONSTANTS
    Clients = {c1, c2}
    Devices = {d1}
    Scopes = {s1}
    NoScope = NoScope  NoOne = NoOne  NoCall = NoCall  NoEntry = NoEntry
    None = None  Junk = Junk  Blank = Blank
    ScopesOf <- OwnScope
    CodeAt <- RepeatingCodes
    ValidWindow = 1  Skew = 1  Drift = 1
    Limit = 2
    FirstStep = 2  LastStep = 4
SYMMETRY ClientSymmetry
SPECIFICATION Spec
INVARIANTS TypeOK UserIsNotShutOut
PROPERTIES HonouredOnce AcceptedInOrder
