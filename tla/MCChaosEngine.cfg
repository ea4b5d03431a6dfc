\* Two runs over two screens; a run may be seeded from a recording.
CONSTANTS
    h1 = h1
    h2 = h2
    short = short
    padded = padded
    other = other
    empty = empty
    Screens = {h1, h2}
    FieldsOf <- InputFields
    Values <- Texts
    Size <- Sizes
    Trimmed <- Trims
    Keys <- PressedKeys
    KeyOrder <- SortedKeys
    Configs <- RunConfigs
    Recordings <- Recorded
    MaxAttempts = 2
    MaxValues = 1
    MinPresses = 1
    MaxFactor = 2
    BoostUnit = 10
    MaxRuns = 2
    NoScreen = NoScreen
    NoSteps = NoSteps
SPECIFICATION Spec
VIEW View
INVARIANTS
    TypeOK
    CountersAgree
    MapCoversRun
    KnownValuesWorked
    AttemptNumbers
    KeysStaySelectable
    StopIsPrompt
    OutputComplete
\* The runs of a behaviour are bounded.
CHECK_DEADLOCK FALSE
