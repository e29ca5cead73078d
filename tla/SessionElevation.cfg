\* Two overlapping requests of one browser, on machines a tick apart; views
\* with two age limits.
CONSTANTS
    Clients = {c1, c2}
    Keys = {k1}
    NoKey = NoKey  Absent = Absent  NoMarker = NoMarker
    Ages = {1, 3}
    MaxAge = 3
    Skew = 1
SPECIFICATION FairSpec
INVARIANTS TypeOK StandingIsStored ClearHolds
PROPERTIES AdmittedOnFactor ElevationLapses
