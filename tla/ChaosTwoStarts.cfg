\* Two POST /chaos/start at the same time.
CONSTANTS
    Requests = {r1, r2}
    Engines = {e1, e2}
    EarlierRuns = {}
    Recording = recording
    NoEngine = NoEngine
    NoRun = NoRun
    NoChaos = NoChaos
    Ops = {"start"}
    MaxSteps = 1
    EarlierSteps = 0
    TimeBudget = FALSE
    DiskFaults = FALSE
SPECIFICATION Spec
INVARIANT AtMostOneActiveEngine
CHECK_DEADLOCK FALSE
