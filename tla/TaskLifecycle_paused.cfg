SPECIFICATION Spec
CONSTANTS
    Tasks = {t1}
    Runs = {r1}
    NoRun = none
    Sources = {s1}
    MaxModelRequests = 1
    MaxAttempts = 2
    MaxCalls = 1
    MaxAmendments = 1
    MaxCrashes = 1
    Ops = {"pause"}
PROPERTIES OnlyUserLeavesPaused
