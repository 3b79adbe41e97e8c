SPECIFICATION Spec
CONSTANTS
    Tasks = {t1, t2}
    Runs = {r1, r2}
    NoRun = none
    Sources = {}
    MaxModelRequests = 1
    MaxAttempts = 1
    MaxCalls = 0
    MaxAmendments = 0
    MaxCrashes = 1
    Ops = {"pause", "suspend", "crash"}
SYMMETRY Symmetry
INVARIANTS OutcomeTruthful LiveRunStoppable
PROPERTIES TerminalIsFinal
