SPECIFICATION Spec
CONSTANTS
    Sessions = {1, 2, 3}
    NoSession = 0
    Requests = {q1, q2}
    Identities = {i1}
    NoIdentity = null
    Callers = {c1, c2}
    MaxFaults = 0
CONSTRAINT InOrder
PROPERTIES OnlyOverItsOwn
