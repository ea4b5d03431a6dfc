\* Pause during a playback in play mode.
CONSTANTS
    Requests = {r1}
    Players = {g1}
    Workflows <- MCWorkflows
    NoPlayback = NoPlayback
    NoWorkflow = NoWorkflow
    Ops = {"play", "pause", "stop"}
SPECIFICATION Spec
PROPERTY PauseHolds
