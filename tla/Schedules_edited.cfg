SPECIFICATION Spec
CONSTANTS
    Schedules = {s1}
    Cadences <- OneCadence
    Panel = {p1}
    Outcomes = {"completed"}
    MaxRuns = 8
    MaxNow = 4
    MaxSleeps = 0
    MaxEdits = 1
    RunGrace = 1
    MaxEnumerated = 2
    Scenarios <- OnlyEditing
CHECK_DEADLOCK FALSE
INVARIANTS NeverTwice
