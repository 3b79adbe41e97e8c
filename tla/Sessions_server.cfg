SPECIFICATION CodesSpec
CONSTANTS
    Sessions = {s1, s2, s3}
    NoSession = none
    Requests = {q1, q2}
    Identities = {i1, i2, m1, m2}
    Email = {m1, m2}
    NoIdentity = null
    Challenges = {c1, c2}
    NoChallenge = nochallenge
    MaxAttempts = 2
    Scenes = {"tokens", "codes"}
SYMMETRY CodesSymmetry
INVARIANTS TypeOK SingleUse EndedIsDead CodeIsWorthOne AddressHasOneOwner
PROPERTIES PromiseKept
