\* Two callers, three restarts.
CONSTANTS
    Callers = {c1, c2}
    Processes = {p0, p1, p2, p3}
    Initial = p0
    NoProcess = NoProcess
SPECIFICATION Spec
INVARIANTS
    TypeOK
    PipeUsable
    OncePerProcess
PROPERTIES
    ImplementsHostCall
    CallsReturn
