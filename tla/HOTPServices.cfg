\* Every table of two codes over the counters the windows reach.
CONSTANTS
    None = None  Blank = Blank
    CodeAt <- TableCode
    CodeSpace = {a, b}
    Horizon = 10
    MaxCounter = 4
    LookAhead = 2  SearchWindow = 2  ReplayWindow = 1
    DefaultInterval = 2  Intervals = {1, 2, 4}
    Times = {4, 5, 8}  ValidWindows = {0, 1}
SPECIFICATION Spec
INVARIANTS ReplayIsRefused ResyncIsVerifyTwice DriftIsRepaired
           HOTPCheckIsExact TOTPCheckIsExact
