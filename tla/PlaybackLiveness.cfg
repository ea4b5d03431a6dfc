\* One request after the other, two playbacks, pause included.
CONSTANTS
    Requests = {r1}
    Players = {g1, g2}
    Workflows <- OneWorkflow
    NoPlayback = NoPlayback
    NoWorkflow = NoWorkflow
    Ops = {"play", "debug", "step", "pause", "stop", "remove"}
SPECIFICATION FairSpec
PROPERTIES
    StopEnds
    PlaybackEnds
