\* One client that starts and stops, one request after the other.
CONSTANTS
    Requests = {r1}
    Engines = {e1, e2}
    EarlierRuns = {}
    Recording = recording
    NoEngine = NoEngine
    NoRun = NoRun
    NoChaos = NoChaos
    Ops = {"start", "stop"}
    MaxSteps = 2
    EarlierSteps = 0
    TimeBudget = FALSE
    DiskFaults = FALSE
SPECIFICATION Spec
INVARIANT ActiveEngineIsStoppable
CHECK_DEADLOCK FALSE
