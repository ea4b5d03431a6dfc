\* Two concurrent requests, two runs, a directory that may refuse a file.
CONSTANTS
    Requests = {r1, r2}
    Engines = {e1, e2}
    EarlierRuns = {}
    Recording = recording
    NoEngine = NoEngine
    NoRun = NoRun
    NoChaos = NoChaos
    Ops = {"start", "stop", "resume", "remove", "load", "export", "disconnect"}
    MaxSteps = 1
    EarlierSteps = 0
    TimeBudget = TRUE
    DiskFaults = TRUE
SPECIFICATION Spec
SYMMETRY Symmetry
VIEW View
INVARIANTS
    TypeOK
    RemovedStaysBlank
    NoStuckActive
    SnapshotsComplete
    ResumeCountsOn
PROPERTY
    ImplementsLifecycle
\* After a disconnect the session takes no more requests.
CHECK_DEADLOCK FALSE
