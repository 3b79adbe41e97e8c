SPECIFICATION Spec
CONSTANTS
    Schedules = {s1}
    Cadences <- BothCadences
    Panel = {p1}
    Outcomes = {"completed"}
    MaxRuns = 2
    MaxNow = 4
    MaxSleeps = 1
    MaxEdits = 1
    RunGrace = 1
    MaxEnumerated = 2
    Scenarios <- OneAtATime
CHECK_DEADLOCK FALSE
INVARIANTS AtMostOnce NoSilentGap
PROPERTIES NothingGoesBack
