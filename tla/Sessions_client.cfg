SPECIFICATION FairSpec
CONSTANTS
    Sessions = {1, 2, 3}
    NoSession = 0
    Requests = {q1, q2}
    Identities = {i1}
    NoIdentity = null
    Callers = {c1, c2}
    MaxFaults = 1
CONSTRAINT InOrder
INVARIANTS PresentedOnce AccessNotAhead
PROPERTIES RefreshSettles
