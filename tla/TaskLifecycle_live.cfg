SPECIFICATION FairSpec
CONSTANTS
    Tasks = {t1}
    Runs = {r1, r2, r3}
    NoRun = none
    Sources = {s1}
    MaxModelRequests = 1
    MaxAttempts = 2
    MaxCalls = 1
    MaxAmendments = 1
    MaxCrashes = 1
    Ops = {"crash"}
INVARIANTS TypeOK PlanGate TaintRecorded WorkHasRunner
PROPERTIES ApprovalKept NoToolAfterEnd TaintCarried RunsEnd WorkSettles
