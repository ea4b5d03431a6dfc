\* One request after the other, two runs, one run of an earlier session.
CONSTANTS
    Requests = {r1}
    Engines = {e1, e2}
    EarlierRuns = {old}
    Recording = recording
    NoEngine = NoEngine
    NoRun = NoRun
    NoChaos = NoChaos
    Ops = {"start", "record", "load", "remove", "disconnect"}
    MaxSteps = 1
    EarlierSteps = 1
    TimeBudget = FALSE
    DiskFaults = FALSE
SPECIFICATION FairSpec
INVARIANT
    ShownRunIsSaved
PROPERTIES
    RegistrationEnds
    EveryRunIsSaved
    ActiveStatusIsCorrected
\* After a disconnect the session takes no more requests.
CHECK_DEADLOCK FALSE
