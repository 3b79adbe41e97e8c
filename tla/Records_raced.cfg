SPECIFICATION Spec
CONSTANTS
    a = a
    b = b
    d = d
    Ids = {a, b}
    writer = writer
    changer = changer
    Callers = {writer, changer}
    Upgrade = upgrade
    Does <- BothPut
    Generations <- NoGeneration
    Unreadable = {}
    MaxRecords = 2
    MaxFaults = 0
INVARIANTS IndexNamesRecords
