\* Two overlapping requests and two submits; two files, writes may fail.
CONSTANTS
    Requests = {r1, r2}
    Files = {f1,f2}
    Keys <- UserKeys
    Texts = {line}
    NoText = nothing
    Gaps = {3,52}
    NoRecording = NoRecording
    NoFile = NoFile
    NoWorkflow = NoWorkflow
    MaxSubmits = 2
    MaxSteps = 4
SPECIFICATION Spec
SYMMETRY Symmetry
VIEW View
INVARIANTS
    TypeOK
    FilesBracketed
    ShownFileExists
    
\* After a disconnect the session takes no more requests.
CHECK_DEADLOCK FALSE
