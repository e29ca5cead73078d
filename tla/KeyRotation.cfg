\* Two processes in different deployments, two devices, two keys that replace
\* each other for ever.
CONSTANTS
    Processes = {p1, p2}
    Devices = {d1, d2}
    KeyIds = {k1, k2, k3}
    FirstKey = k1
    NoDevice = NoDevice  NoSecret = NoSecret
SPECIFICATION FairSpec
INVARIANTS TypeOK EveryoneReads NoCallFails
PROPERTIES OldKeyFallsIdle
