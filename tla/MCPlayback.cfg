\* Two concurrent requests, two playbacks, no pause.
CONSTANTS
    Requests = {r1, r2}
    Players = {g1, g2}
    Workflows <- MCWorkflows
    NoPlayback = NoPlayback
    NoWorkflow = NoWorkflow
    Ops = {"play", "debug", "step", "stop", "remove", "load"}
SPECIFICATION Spec
SYMMETRY Symmetry
INVARIANTS
    TypeOK
    ActiveHasPlayer
    SummaryMatches
