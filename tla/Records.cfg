SPECIFICATION StorageSpec
CONSTANTS
    a = a
    b = b
    d = d
    Ids = {a, b, d}
    writer = writer
    changer = changer
    Callers = {writer, changer}
    Upgrade = upgrade
    Does <- Apart
    Generations <- AnyGeneration
    Unreadable = {d}
    MaxRecords = 2
    Recorders = {r1, r2}
    MaxEvents = 4
    RetentionMs = 1
    MaxAt = 2
    MaxRecorded = 5
    c1 = c1
    c2 = c2
    i1 = i1
    Records = {c1, c2, i1}
    Identity = {i1}
    DataKeys = {k1, k2}
    NoKey = NoKey
    MaxWrites = 2
    MaxFaults = 3
SYMMETRY Alike
INVARIANTS StorageTypeOK NothingLost TrailIntact LossIsKnown NothingLocked SealedWhileOn
PROPERTIES NotRolledBack
CHECK_DEADLOCK FALSE
