SPECIFICATION FairSpec
CONSTANTS
    Schedules = {s1, s2}
    Cadences <- BothCadences
    Panel = {p1}
    Outcomes = {"completed"}
    MaxRuns = 8
    MaxNow = 2
    MaxSleeps = 1
    MaxEdits = 0
    RunGrace = 1
    MaxEnumerated = 2
    Scenarios <- OnlySleeping
CHECK_DEADLOCK FALSE
INVARIANTS WakeUpArmed
PROPERTIES OccurrenceIsHandled RunIsClosed
