\* Two POST /workflow/play at the same time.
CONSTANTS
    Requests = {r1, r2}
    Players = {g1, g2}
    Workflows <- MCWorkflows
    NoPlayback = NoPlayback
    NoWorkflow = NoWorkflow
    Ops = {"play", "stop"}
SPECIFICATION Spec
INVARIANT PlayerIsStoppable
